---- MODULE Spec2Model ----
(***************************************************************************)
(* module-js: the component lifecycle registry (App), the component base   *)
(* class (Module) and the naming helpers, as a state machine.              *)
(*                                                                         *)
(* The repository holds several generations of App and Module.  The        *)
(* variable `build` names the pair that is linked together:                *)
(*   app "ts"     src/src/App.ts            (create(element), no guard)     *)
(*   app "dist"   src/dist/lib/App.js       (tracked guard, create(.,true)) *)
(*   app "legacy" src/unnamed/part_001 App  (create({el}, true))            *)
(*   mod "tree"   src/unnamed/part_007      (binding written by create)     *)
(*   mod "getter" src/src/Module.ts         (binding written by the ctor    *)
(*                                           under the instance's name)    *)
(*   mod "static" src/unnamed/part_008      (binding written by the ctor    *)
(*                                           under Module.name)            *)
(***************************************************************************)
EXTENDS Integers, Sequences, FiniteSets, TLC

VARIABLES
    build,      \* which App / Module generation is linked
    attrs,      \* the document: element -> (attribute name -> value)
    insts,      \* every Module instance constructed so far, by identity
    prop,       \* own properties written on elements: element -> (key -> instance)
    map,        \* App.moduleInstances, in insertion order
    dom,        \* listeners attached to event targets
    log,        \* hooks run by the last operation, in order
    last,       \* the last operation: its arguments and its result
    detached,   \* the elements that are taken out of their parent
    observer    \* App.mutationObserver: observing, transient nodes, queued records

vars == <<build, attrs, insts, prop, map, dom, log, last, detached, observer>>

----------------------------------------------------------------------------
(* Bounds *)

MaxInst == 3        \* instances constructed in one behaviour
MaxRecords == 2     \* mutation records queued for one delivery
MaxDepth == 2       \* nested calls of init the call stack has room for

----------------------------------------------------------------------------
(* Strings.  A name is a sequence of one-character strings so that the     *)
(* conversions can look at each character; Join makes the string.          *)

RECURSIVE Join(_)
Join(s) == IF s = <<>> THEN "" ELSE Head(s) \o Join(Tail(s))

LowerOf == [A |-> "a", B |-> "b", M |-> "m", T |-> "t", Y |-> "y"]

IsUpper(ch) == ch \in DOMAIN LowerOf

\* pascalString.replace(/[A-Z]/g, (match, offset) => (offset ? sep : '') + match.toLowerCase())
ReplaceUpper(s, sep) ==
    Join([i \in 1..Len(s) |->
            IF IsUpper(s[i])
            THEN (IF i > 1 THEN sep ELSE "") \o LowerOf[s[i]]
            ELSE s[i]])

\* pascalToKebab that lowercases without starting a new segment
pascalToKebab_NoSeparator(s) == ReplaceUpper(s, "")

pascalToKebab(s) == ReplaceUpper(s, "-")

pascalToSnake(s) == ReplaceUpper(s, "_")

----------------------------------------------------------------------------
(* The document: html > body > (A > B), C.                                 *)

Elems == {"A", "B", "C"}

None == "none"          \* an omitted context argument

\* the place of each element in the document; an element taken out of its
\* parent keeps its own children
Parent == [A |-> "body", B |-> "A", C |-> "body"]

DocOrder == <<"A", "B", "C">>

NoNode == "null"

\* node.parentNode: the parent of the root element is the document
parentNode(n) ==
    IF n \in Elems THEN (IF n \in detached THEN NoNode ELSE Parent[n])
    ELSE IF n \in {"body", "svg"} THEN (IF n = "body" THEN "html" ELSE "body")
    ELSE IF n = "html" THEN "document"
    ELSE NoNode

RECURSIVE contains(_, _)
\* Node.contains: ctx is e or an ancestor of e
contains(ctx, e) ==
    IF e = ctx THEN TRUE
    ELSE IF e = NoNode THEN FALSE
    ELSE contains(ctx, parentNode(e))

NullAttr == "<null>"    \* getAttribute of an absent attribute

getAttribute(e, n) == IF n \in DOMAIN attrs[e] THEN attrs[e][n] ELSE NullAttr

\* the root element and the body carry no attribute
hasAttribute(e, n) == e \in Elems /\ n \in DOMAIN attrs[e]

\* a sequence filtered by a predicate, order kept
RECURSIVE SelectIn(_, _)
SelectIn(seq, S) ==
    IF seq = <<>> THEN <<>>
    ELSE IF Head(seq) \in S THEN <<Head(seq)>> \o SelectIn(Tail(seq), S)
    ELSE SelectIn(Tail(seq), S)

\* context.querySelectorAll(`[${attr}]`): the descendants of ctx (ctx excluded)
\* that carry attr, in document order; an omitted context is the root element
querySelectorAll(ctx, attr) ==
    LET root == IF ctx = None THEN "html" ELSE ctx
    IN  SelectIn(DocOrder, {e \in Elems : e # root /\ contains(root, e) /\ hasAttribute(e, attr)})

\* the nodes above the elements: the body, the root element and the document

IsHTMLElement(n) == n \in Elems \cup {"body", "html"}

\* node.parentElement: the document is no element
parentElement(n) == IF n \in Elems \cup {"body"} THEN parentNode(n) ELSE NoNode

\* the tags of the elements: B is a link
tagName == [A |-> "div", B |-> "a", C |-> "div", body |-> "body", html |-> "html"]

\* element.matches(selector) for the selectors the document can satisfy: a tag,
\* [name] and [name="value"]; the document has no classes and no ids, the
\* root element no attributes
matches(n, selector) ==
    /\ IsHTMLElement(n)
    /\ \/ selector = tagName[n]
       \/ /\ n \in Elems
          /\ \E a \in DOMAIN attrs[n] :
              \/ selector = "[" \o a \o "]"
              \/ selector = "[" \o a \o "=\"" \o attrs[n][a] \o "\"]"

\* root.querySelectorAll(selector): the descendants of root that match, in
\* document order
querySelectorAllOf(root, selector) ==
    SelectIn(DocOrder, {e \in Elems : e # root /\ contains(root, e) /\ matches(e, selector)})

\* findParent(element, selector, limit), the loop from parentNode on
RECURSIVE findParentFrom(_, _, _)
findParentFrom(node, selector, limitNode) ==
    IF node # NoNode /\ node # limitNode /\ IsHTMLElement(node)
    THEN IF matches(node, selector) THEN node
         ELSE findParentFrom(parentNode(node), selector, limitNode)
    ELSE NoNode

\* findParent(element, selector, limit): limit || document.documentElement
findParent(element, selector, limit) ==
    findParentFrom(element, selector, IF limit = None THEN "html" ELSE limit)

\* hasParent(element, parent)
RECURSIVE hasParent(_, _)
hasParent(element, parent) ==
    IF element = NoNode \/ parent = NoNode THEN FALSE
    ELSE IF element = parent THEN TRUE
    ELSE IF parentElement(element) # NoNode THEN hasParent(parentElement(element), parent)
    ELSE FALSE

\* an event on its way: the node it was dispatched to and the node whose
\* listener is running
Event(target, currentTarget) == [target |-> target, currentTarget |-> currentTarget]

\* a call of the wrapped listener, with the current target the event carries
Listened(currentTarget) == [op |-> "listener", currentTarget |-> currentTarget]

\* the closure of getEventFilteredEventListener(element, listener) run on event:
\* the calls of listener it makes
getEventFilteredEventListener(element, event) ==
    IF ~IsHTMLElement(event.target) THEN <<>>
    ELSE IF element = event.currentTarget \/ hasParent(element, event.target)
    THEN <<Listened(element)>>
    ELSE <<>>

\* the closure of getSelectorFilteredEventListener(selector, listener) run on
\* event: part_006 defines currentTarget as the element found, the bundle
\* dist/index.esm.js passes a copy of the event with currentTarget: event.target
getSelectorFilteredEventListener(selector, event) ==
    IF ~IsHTMLElement(event.target) THEN <<>>
    ELSE LET parent == findParent(event.target, selector, None)
         IN  IF parent = NoNode THEN <<>>
             ELSE IF build.app = "dist" THEN <<Listened(event.target)>>
             ELSE <<Listened(parent)>>

\* the nodes an event dispatched to target passes while it bubbles
RECURSIVE composedPath(_)
composedPath(target) ==
    IF target = NoNode THEN {} ELSE {target} \cup composedPath(parentNode(target))

----------------------------------------------------------------------------
(* Component classes.  A class is the value of its `name` property.        *)

Tab == <<"T", "a", "b">>
MyTab == <<"M", "y", "T", "a", "b">>
tab == <<"t", "a", "b">>
my_tab == <<"m", "y", "-", "t", "a", "b">>
\* `class Bare extends Module {}`: a subclass that declares no name of its own
Bare == <<"B", "a", "r", "e">>

ClassNames == {Tab, MyTab, tab, my_tab, Bare}

\* the subclasses that override neither `static name` nor the `name` getter
Unnamed == {Bare}

\* the conversions of every class name, computed once
Kebab == [c \in ClassNames |-> pascalToKebab(c)]
Snake == [c \in ClassNames |-> pascalToSnake(c)]
Plain == [c \in ClassNames |-> Join(c)]

\* options.modules: PascalCase class names for the builds that convert them,
\* the kebab-case static name of the README for the build that uses it as is
\* or for a page that declares `static name` in kebab-case (build.names)
modules ==
    IF build.app = "legacy" \/ "names" \in DOMAIN build
    THEN <<tab, my_tab>>
    ELSE <<Tab, MyTab>>

Classes == {modules[k] : k \in 1..Len(modules)}

----------------------------------------------------------------------------
(* Module.  The operators below take the program state as a record         *)
(*   s = [insts, prop, map, dom, log, fail, thrown]                        *)
(* and return the state after the call, so that one handler can call       *)
(* another.                                                                *)

\* An instance is named by its class, its element and the number of instances
\* of that class constructed for that element so far: two instances are the
\* same object iff their names are equal.
Null == <<>>            \* no instance

NewId(s, c, e) ==
    <<c, e, 1 + Cardinality({i \in DOMAIN s.insts : i[1] = c /\ i[2] = e})>>

Hook(op, i) == [op |-> op, inst |-> i]

\* Module.name of the base class: `static name;` defines it as undefined,
\* which as a property key is the string "undefined"
BaseName == "undefined"

\* the `name` an instance answers with
\*   tree:   this._name = pascalToKebab(this.constructor.name)
\*   getter: the subclass's `get name() { return MyModule.name }`
\*   static: the class has no instance name and uses Module.name
InstanceName(c) ==
    CASE build.mod = "tree" -> Kebab[c]
      [] build.mod = "getter" -> Plain[c]
      [] OTHER -> BaseName

\* static getName(): pascalToKebab(this.name); the older classes use this.name as is
getName(c) == IF build.mod = "tree" THEN Kebab[c] ELSE Plain[c]

\* static getModuleSelector(), as the attribute it selects
getModuleSelector(c) == "data-module-" \o getName(c)

\* getModuleAttributeName(suffix) / getAttributeName(suffix)
getModuleAttributeName(i, suffix) ==
    IF suffix # "" THEN "data-" \o i.name \o "-" \o suffix ELSE "data-" \o i.name

\* getData(name, context): the attribute of context || this.el
getData(i, name, context) ==
    getAttribute(IF context = None THEN i.el ELSE context, getModuleAttributeName(i, name))

\* setData(name, value, context) on the attributes a of the document:
\* removeAttribute for a null value, setAttribute otherwise
setData(a, i, name, value, context) ==
    LET targetElement == IF context = None THEN i.el ELSE context
        n == getModuleAttributeName(i, name)
    IN  IF value = NullAttr
        THEN [a EXCEPT ![targetElement] = [k \in DOMAIN @ \ {n} |-> @[k]]]
        ELSE [a EXCEPT ![targetElement] = (n :> value) @@ @]

\* selector.indexOf(ch): the place of the first ch counted from 0, -1 without one
indexOf(selector, ch) ==
    IF \E k \in 1..Len(selector) : selector[k] = ch
    THEN (CHOOSE k \in 1..Len(selector) :
              selector[k] = ch /\ \A j \in 1..(k - 1) : selector[j] # ch) - 1
    ELSE -1

\* getSelectorQuery(selector), selector a sequence of characters
\*   part_007, src/src/Module.ts: `[${attribute}="${selector}"]`
\*   part_008:                    `[${this.attributeName}-${selector}]`
getSelectorQuery(i, selector) ==
    LET classIndex == indexOf(selector, ".")
        idIndex    == indexOf(selector, "#")
        attrIndex  == indexOf(selector, "[")
        indexes    == SelectSeq(<<classIndex, idIndex, attrIndex>>, LAMBDA index : index # -1)
    IN  IF Len(indexes) # 0 THEN Join(selector)
        ELSE IF build.mod = "static"
        THEN "[" \o getModuleAttributeName(i, "") \o "-" \o Join(selector) \o "]"
        ELSE "[" \o getModuleAttributeName(i, "") \o "=\"" \o Join(selector) \o "\"]"

\* useModuleSelector ? this.getSelectorQuery(selector) : selector
\* the third parameter exists in part_007 only; the older classes ignore it
moduleSelector(i, selector, useModuleSelector) ==
    IF build.mod = "tree" /\ ~useModuleSelector THEN Join(selector)
    ELSE getSelectorQuery(i, selector)

\* $all(selector, context, useModuleSelector): the query it passes and the
\* elements it returns
QueryAll(i, selector, context, useModuleSelector) ==
    LET query == moduleSelector(i, selector, useModuleSelector)
    IN  [query |-> query,
         ret |-> querySelectorAllOf(IF context = None THEN i.el ELSE context, query)]

\* $(selector, context, useModuleSelector): the first match or none
Query(i, selector, context, useModuleSelector) ==
    LET r == QueryAll(i, selector, context, useModuleSelector)
    IN  [query |-> r.query, ret |-> IF r.ret = <<>> THEN <<>> ELSE <<Head(r.ret)>>]

\* $parent(selector, context, useModuleSelector): findParent, resp. the same
\* loop written out in the older classes
QueryParent(i, selector, context, useModuleSelector) ==
    LET query == moduleSelector(i, selector, useModuleSelector)
        found == findParent(IF context = None THEN i.el ELSE context, query, None)
    IN  [query |-> query, ret |-> IF found = NoNode THEN <<>> ELSE <<found>>]

\* new CustomEvent(type, {detail, bubbles, cancelable}) handed to
\* target.dispatchEvent
CustomEvent(target, type, detail, bubbles, cancelable) ==
    [op |-> "dispatchEvent", target |-> target, type |-> type, detail |-> detail,
     bubbles |-> bubbles, cancelable |-> cancelable]

\* dispatchDomEvent whose caller's fields win over the module field
dispatchDomEvent_DetailWins(s, id, type, detail) ==
    [s EXCEPT !.log = Append(@, CustomEvent(s.insts[id].el, type,
                                            detail @@ ("module" :> id), TRUE, FALSE))]

\* dispatchDomEvent(type, detail = {}): { ...detail, module: this }, a later
\* key of an object literal replacing an earlier one
dispatchDomEvent(s, id, type, detail) ==
    [s EXCEPT !.log = Append(@, CustomEvent(s.insts[id].el, type,
                                            ("module" :> id) @@ detail, TRUE, FALSE))]

\* el[key] = instance
SetProp(p, e, key, i) == [p EXCEPT ![e] = (key :> i) @@ p[e]]

\* new this(element): the constructor.  The older classes write the identity
\* binding here: el[this.name] = this, resp. el[Module.name] = this
\* A subclass without the `name` getter inherits the one that throws, at
\* el[this.name] = this, before anything is written.
Construct(s, c, e) ==
    LET id == NewId(s, c, e)
        i  == [cls |-> c, el |-> e, name |-> InstanceName(c),
               status |-> "constructed", say |-> NullAttr, table |-> <<>>, made |-> 0,
               events |-> <<>>, handles |-> {}, elements |-> Null]
    IN  IF build.mod = "getter" /\ c \in Unnamed
        THEN [s EXCEPT !.thrown = TRUE]
        ELSE
        [s EXCEPT !.insts = (id :> i) @@ @,
                  !.prop = CASE build.mod = "getter" -> SetProp(@, e, InstanceName(c), id)
                             [] build.mod = "static" -> SetProp(@, e, BaseName, id)
                             [] OTHER -> @,
                  !.log = Append(@, Hook("construct", id))]

\* EventEmitter.  this._events is a plain object: i.events holds its own
\* properties, a function from event names to the callbacks of a Set in
\* insertion order, and a lookup also finds what every object inherits from
\* Object.prototype (constructor, toString, ...), which is no Set.
ObjectPrototype == {"constructor"}

\* clearEvents(): this._events = {}
clearEvents == <<>>

\* eventExists(eventName): !!this._events[eventName]
eventExists(i, eventName) ==
    eventName \in DOMAIN i.events \/ eventName \in ObjectPrototype

\* Set.prototype.add and Set.prototype.delete
SetAdd(q, x) == IF \E k \in 1..Len(q) : q[k] = x THEN q ELSE Append(q, x)
SetDelete(q, x) == SelectSeq(q, LAMBDA y : y # x)

\* a call of a method the value looked up does not have: TypeError
TypeError(s) == [s EXCEPT !.thrown = TRUE]

\* a callback called by emit
Called(id, callback) == [op |-> "call", inst |-> id, callback |-> callback]

\* on(eventName, callback); the handle it returns is () => this.off(eventName, callback)
on(s, id, eventName, callback) ==
    LET s1 == IF ~eventExists(s.insts[id], eventName)
              THEN [s EXCEPT !.insts[id].events = (eventName :> <<>>) @@ @]
              ELSE s
    IN  IF eventName \notin DOMAIN s1.insts[id].events THEN TypeError(s1)
        ELSE [s1 EXCEPT !.insts[id].events[eventName] = SetAdd(@, callback),
                        !.insts[id].handles = @ \cup {<<eventName, callback>>}]

\* off(eventName, callback)
off(s, id, eventName, callback) ==
    IF ~eventExists(s.insts[id], eventName) THEN s
    ELSE IF eventName \notin DOMAIN s.insts[id].events THEN TypeError(s)
    ELSE [s EXCEPT !.insts[id].events[eventName] = SetDelete(@, callback)]

\* emit(eventName, data)
emit(s, id, eventName) ==
    IF ~eventExists(s.insts[id], eventName) THEN s
    ELSE IF eventName \notin DOMAIN s.insts[id].events THEN TypeError(s)
    ELSE LET q == s.insts[id].events[eventName]
         IN  [s EXCEPT !.log = @ \o [k \in 1..Len(q) |-> Called(id, q[k])]]

\* A hook a component overrides may throw.  s.fail names the hook ("init" or
\* "destroy") and the element whose component throws on entering it, s.thrown
\* says that an exception is on its way to the caller: no statement of the
\* functions it passes through runs after the throw.
NoFail == [op |-> "none", el |-> None]

Throws(s, op, id) == s.fail.op = op /\ s.insts[id].el = s.fail.el

\* the hook is entered and throws
Throw(s, op, id) == [s EXCEPT !.thrown = TRUE, !.log = Append(@, Hook(op, id))]

\* the subclasses whose constructor sets this.autoQueryElements = true
AutoQuery == {Tab, tab}

\* private queryModuleElements(): the children marked with the module
\* attribute, grouped by its value; a child whose value is empty is left out
queryModuleElements(i) ==
    LET moduleAttribute == getModuleAttributeName(i, "")
        els  == QueryAll(i, <<"[", moduleAttribute, "]">>, None, TRUE).ret
        name == [k \in 1..Len(els) |-> getAttribute(els[k], moduleAttribute)]
    IN  [n \in {name[k] : k \in 1..Len(els)} \ {""} |->
            SelectSeq(els, LAMBDA e : getAttribute(e, moduleAttribute) = n)]

\* a hook that calls into the registry: s.reenter names the element whose
\* components call App.instance.init(ctx) from their init hook
NoReenter == [el |-> None, ctx |-> None]

RECURSIVE initModules(_, _)

\* instance.init(): the component's hook reads its scoped data attribute; the
\* hook of a component that calls the registry does so on every activation,
\* and a call the stack has no room for throws a RangeError
ModuleInit(s, id) ==
    IF Throws(s, "init", id) THEN Throw(s, "init", id)
    ELSE LET s1 == [s EXCEPT !.insts[id].status = "initialized",
                             !.insts[id].elements =
                                 IF build.mod = "tree" /\ s.insts[id].cls \in AutoQuery
                                 THEN queryModuleElements(s.insts[id])
                                 ELSE Null,
                             !.insts[id].say = getData(s.insts[id], "say", None),
                             !.log = Append(@, Hook("init", id))]
         IN  IF s.reenter.el # s.insts[id].el THEN s1
             ELSE IF s.depth >= MaxDepth
             THEN [s1 EXCEPT !.thrown = TRUE, !.overflow = TRUE]
             ELSE [initModules([s1 EXCEPT !.depth = @ + 1], s.reenter.ctx)
                      EXCEPT !.depth = s.depth]

\* a destroy that also takes the instance off its element
ModuleDestroy_Unbind(s, id) ==
    LET t == s.insts[id].table
        e == s.insts[id].el
    IN  [s EXCEPT !.insts[id].status = "destroyed",
                  !.prop[e] = [n \in {k \in DOMAIN @ : @[k] # id} |-> @[n]],
                  !.dom = @ \ {[target |-> k[1], type |-> k[2], fn |-> t[k],
                                capture |-> FALSE] : k \in DOMAIN t},
                  !.log = Append(@, Hook("destroy", id))]

\* instance.destroy(): element.removeEventListener(eventName, listener) for every
\* entry of the owned table; no options are passed, so the capture flag is false
\* and the table itself is left as it is.  The destroy of src/src/Module.ts and
\* of the bundle part_001 begins with this.clearEvents()
ModuleDestroy(s, id) ==
    LET t == s.insts[id].table
    IN  IF Throws(s, "destroy", id) THEN Throw(s, "destroy", id)
        ELSE [s EXCEPT !.insts[id].status = "destroyed",
                       !.insts[id].events = IF build.mod = "getter" THEN clearEvents ELSE @,
                       !.dom = @ \ {[target |-> k[1], type |-> k[2], fn |-> t[k],
                                     capture |-> FALSE] : k \in DOMAIN t},
                       !.log = Append(@, Hook("destroy", id))]

\* private static getInstance(element)
getInstance(s, c, e) ==
    IF getName(c) \in DOMAIN s.prop[e] THEN s.prop[e][getName(c)] ELSE Null

\* create that never looks for the instance bound to the element
create_AlwaysNew(s, c, e, recreate) ==
    LET id == NewId(s, c, e)
        s2 == Construct(s, c, e)
    IN  [s |-> IF build.mod = "tree"
               THEN [s2 EXCEPT !.prop = SetProp(@, e, getName(c), id)]
               ELSE s2,
         ret |-> id]

\* static create(element, recreate = false): [s |-> state after, ret |-> instance]
create(s, c, e, recreate) ==
    LET instance == getInstance(s, c, e)
        s1 == IF instance # Null /\ recreate THEN ModuleDestroy(s, instance) ELSE s
        id == NewId(s1, c, e)
        s2 == Construct(s1, c, e)
    IN  IF instance # Null /\ ~recreate
        THEN [s |-> s, ret |-> instance]
        ELSE IF s1.thrown
        THEN [s |-> s1, ret |-> Null]
        ELSE IF s2.thrown
        THEN [s |-> s2, ret |-> Null]
        ELSE [s |-> IF build.mod = "tree"
                    THEN [s2 EXCEPT !.prop = SetProp(@, e, getName(c), id)]
                    ELSE s2,
              ret |-> id]

\* private static findModuleElementInTree(element)
findModuleElementInTree(c, element) ==
    LET selector == "[" \o getModuleSelector(c) \o "]"
        foundElement == findParent(element, selector, None)
    IN  IF foundElement = NoNode THEN NoNode
        ELSE IF ~IsHTMLElement(foundElement) THEN NoNode
        ELSE foundElement

\* findModuleInTree that makes the instance the module element lacks
findModuleInTree_Create(s, c, element) ==
    LET moduleElement == findModuleElementInTree(c, element)
    IN  IF moduleElement = NoNode THEN [s |-> s, ret |-> Null]
        ELSE create(s, c, moduleElement, FALSE)

\* static findModuleInTree(element): [s |-> state after, ret |-> instance]
findModuleInTree(s, c, element) ==
    LET moduleElement == findModuleElementInTree(c, element)
    IN  IF moduleElement = NoNode THEN [s |-> s, ret |-> Null]
        ELSE [s |-> s, ret |-> getInstance(s, c, moduleElement)]

----------------------------------------------------------------------------
(* Listeners.  The document's listener lists are the set dom of            *)
(* [target, type, fn, capture]: the platform keeps one listener per        *)
(* (type, callback, capture) on a target and removes by the same triple.   *)
(* this._eventListeners is the instance's table, a function from           *)
(* <<target, type>> to the listener last stored for that pair.             *)

\* a callback: method m of instance id as bound by bind(this); n > 0 names the
\* n-th closure the instance wrapped around it
Listener(id, m, n) == <<id, m, n>>

\* $target.addEventListener(type, listener, options)
domAdd(d, target, type, fn, capture) ==
    d \cup {[target |-> target, type |-> type, fn |-> fn, capture |-> capture]}

\* $target.removeEventListener(type, listener, options)
domRemove(d, target, type, fn, capture) ==
    d \ {[target |-> target, type |-> type, fn |-> fn, capture |-> capture]}

\* addEventListener(targets, type, listener, options), targets an array
RECURSIVE addEventListener(_, _, _, _, _, _)
addEventListener(s, id, targets, type, fn, capture) ==
    IF targets = <<>> THEN s
    ELSE LET tg == Head(targets)
             s1 == [s EXCEPT !.dom = domAdd(@, tg, type, fn, capture),
                             !.insts[id].table = (<<tg, type>> :> fn) @@ @]
         IN  addEventListener(s1, id, Tail(targets), type, fn, capture)

RECURSIVE removeEventListener(_, _, _, _, _)

\* removeEventListener without the two guards: the platform is called for
\* every target, with no listener when the table holds none for the pair
removeEventListener_NoGuard(s, id, targets, type, capture) ==
    IF targets = <<>> THEN s
    ELSE LET tg == Head(targets)
             t  == s.insts[id].table
             s1 == [s EXCEPT !.dom = IF <<tg, type>> \in DOMAIN t
                                     THEN domRemove(@, tg, type, t[<<tg, type>>], capture)
                                     ELSE @,
                             !.insts[id].table =
                                 [k \in DOMAIN t \ {<<tg, type>>} |-> t[k]],
                             !.log = Append(@, Hook("removeEventListener", id))]
         IN  removeEventListener(s1, id, Tail(targets), type, capture)

\* removeEventListener(targets, type, options), targets an array; the log
\* records each call of the platform's removeEventListener
removeEventListener(s, id, targets, type, capture) ==
    IF targets = <<>> THEN s
    ELSE LET tg == Head(targets)
             t  == s.insts[id].table
             s1 == IF <<tg, type>> \notin DOMAIN t THEN s
                   ELSE [s EXCEPT !.dom = domRemove(@, tg, type, t[<<tg, type>>], capture),
                                  !.insts[id].table =
                                      [k \in DOMAIN t \ {<<tg, type>>} |-> t[k]],
                                  !.log = Append(@, Hook("removeEventListener", id))]
         IN  removeEventListener(s1, id, Tail(targets), type, capture)

\* getModuleSelectorFilteredEventListener(selector, listener): every call
\* returns a closure that did not exist before
getModuleSelectorFilteredEventListener(s, id, m) == Listener(id, m, s.insts[id].made + 1)

\* addFilteredEventListener(targets, type, listener, selector, options)
addFilteredEventListener(s, id, targets, type, m, capture) ==
    LET fn == getModuleSelectorFilteredEventListener(s, id, m)
        s1 == [s EXCEPT !.insts[id].made = @ + 1]
    IN  addEventListener(s1, id, targets, type, fn, capture)

----------------------------------------------------------------------------
(* App.moduleInstances: Map<HTMLElement, Record<string, Module>>, kept as  *)
(* a sequence of entries [el, recs] in insertion order; recs is the        *)
(* record, a sequence of [key, inst] in key insertion order.               *)

MapHas(m, e) == \E k \in 1..Len(m) : m[k].el = e

MapIndex(m, e) == CHOOSE k \in 1..Len(m) : m[k].el = e

\* moduleInstances.get(element) || {}
MapGet(m, e) == IF MapHas(m, e) THEN m[MapIndex(m, e)].recs ELSE <<>>

\* moduleInstances.set(element, recs): an existing key keeps its place
MapSet(m, e, recs) ==
    IF MapHas(m, e)
    THEN [m EXCEPT ![MapIndex(m, e)].recs = recs]
    ELSE Append(m, [el |-> e, recs |-> recs])

\* moduleInstances.delete(element)
MapDelete(m, e) == SelectSeq(m, LAMBDA x : x.el # e)

RecHas(recs, key) == \E k \in 1..Len(recs) : recs[k].key = key

RecGet(recs, key) == recs[CHOOSE k \in 1..Len(recs) : recs[k].key = key].inst

\* {...recs, [key]: inst}
RecSet(recs, key, i) ==
    IF RecHas(recs, key)
    THEN [k \in 1..Len(recs) |-> IF recs[k].key = key THEN [key |-> key, inst |-> i] ELSE recs[k]]
    ELSE Append(recs, [key |-> key, inst |-> i])

\* delete recs[key]
RecDelete(recs, key) == SelectSeq(recs, LAMBDA x : x.key # key)

----------------------------------------------------------------------------
(* App *)

\* the key App records an instance under, and the token of its discovery attribute
\*   ts, dist: const name = pascalToSnake(module.name)
\*   legacy:   moduleClass.name
AppName(c) == IF build.app = "legacy" THEN Plain[c] ELSE Snake[c]

\* the data attribute that makes the scan skip an element
SkipAttribute == IF build.app = "legacy" THEN "data-depends-on" ELSE "data-ignore-module"

\* element.dataset.ignoreModule as a condition: an empty string is falsy
Skipped(e) == hasAttribute(e, SkipAttribute) /\ getAttribute(e, SkipAttribute) # ""

\* a scan that looks below the context only
ScanElements_Below(ctx, c) == querySelectorAll(ctx, "data-module-" \o AppName(c))

\* the elements one module is looked up on: the matches below the context, then
\* the context itself when it carries the attribute
ScanElements(ctx, c) ==
    LET moduleAttribute == "data-module-" \o AppName(c)
    IN  querySelectorAll(ctx, moduleAttribute)
        \o (IF ctx # None /\ hasAttribute(ctx, moduleAttribute) THEN <<ctx>> ELSE <<>>)

\* getRegisteredModuleInstance(element, name)
getRegisteredModuleInstance(s, e, name) ==
    IF RecHas(MapGet(s.map, e), name) THEN RecGet(MapGet(s.map, e), name) ELSE Null

\* a loop body that asks the factory for a new instance every time
InitElement_Recreate(s, c, e) ==
    IF Skipped(e) THEN s
    ELSE LET r  == create(s, c, e, TRUE)
             s1 == ModuleInit(r.s, r.ret)
         IN  [s1 EXCEPT !.map = MapSet(@, e, RecSet(MapGet(@, e), AppName(c), r.ret))]

\* a loop body that records the instance before it calls the hook
InitElement_RegisterFirst(s, c, e) ==
    IF Skipped(e) THEN s
    ELSE LET r  == create(s, c, e, build.app # "ts")
             s0 == [r.s EXCEPT !.map = MapSet(@, e, RecSet(MapGet(@, e), AppName(c), r.ret))]
         IN  IF r.s.thrown THEN r.s ELSE ModuleInit(s0, r.ret)

\* the body of the loop over the elements of one module
InitElement(s, c, e) ==
    IF Skipped(e) THEN s
    ELSE IF build.app = "dist" /\ getRegisteredModuleInstance(s, e, AppName(c)) # Null THEN s
    ELSE LET r  == create(s, c, e, build.app # "ts")
             s1 == ModuleInit(r.s, r.ret)
         IN  IF r.s.thrown THEN r.s
             ELSE IF s1.thrown THEN s1
             ELSE [s1 EXCEPT !.map = MapSet(@, e, RecSet(MapGet(@, e), AppName(c), r.ret))]

RECURSIVE InitElements(_, _, _)

\* a loop that catches what an element's activation throws and goes on
InitElements_Catch(s, c, els) ==
    IF els = <<>> THEN s
    ELSE InitElements([InitElement(s, c, Head(els)) EXCEPT !.thrown = FALSE], c, Tail(els))

\* for (const element of elements)
InitElements(s, c, els) ==
    IF els = <<>> \/ s.thrown THEN s
    ELSE InitElements(InitElement(s, c, Head(els)), c, Tail(els))

RECURSIVE InitFrom(_, _, _)
InitFrom(s, ctx, k) ==
    IF k > Len(modules) \/ s.thrown THEN s
    ELSE InitFrom(InitElements(s, modules[k], ScanElements(ctx, modules[k])), ctx, k + 1)

\* initModules(context) / the older init(context)
initModules(s, ctx) == InitFrom(s, ctx, 1)

\* unregisterModuleInstance(element, instance)
unregisterModuleInstance(s, e, id) ==
    IF ~MapHas(s.map, e) THEN s
    ELSE LET instances == RecDelete(MapGet(s.map, e), s.insts[id].name)
         IN  IF Len(instances) > 0
             THEN [s EXCEPT !.map = MapSet(@, e, instances)]
             ELSE [s EXCEPT !.map = MapDelete(@, e)]

\* Object.values(instances).forEach(...) over the values as they were when the
\* loop started
RECURSIVE DestroyValues(_, _, _)
DestroyValues(s, e, ids) ==
    IF ids = <<>> \/ s.thrown THEN s
    ELSE LET s1 == ModuleDestroy(s, Head(ids))
         IN  DestroyValues(IF build.app = "legacy" \/ s1.thrown THEN s1
                           ELSE unregisterModuleInstance(s1, e, Head(ids)),
                           e, Tail(ids))

RECURSIVE DestroyEntries(_, _, _)

\* a loop over the entries that does not look at the context
DestroyEntries_NoScope(s, ctx, entries) ==
    IF entries = <<>> THEN s
    ELSE LET x  == Head(entries)
             s1 == DestroyValues(s, x.el, [k \in 1..Len(x.recs) |-> x.recs[k].inst])
         IN  DestroyEntries(IF build.app = "legacy"
                            THEN [s1 EXCEPT !.map = MapDelete(@, x.el)]
                            ELSE s1,
                            ctx, Tail(entries))

\* for (const [element, instances] of this.moduleInstances.entries()): the entries
\* in insertion order; an entry deleted by the loop body is the current one
DestroyEntries(s, ctx, entries) ==
    IF entries = <<>> \/ s.thrown THEN s
    ELSE LET x == Head(entries)
         IN  IF ctx # None /\ ctx # x.el /\ ~contains(ctx, x.el)
             THEN DestroyEntries(s, ctx, Tail(entries))
             ELSE LET s1 == DestroyValues(s, x.el, [k \in 1..Len(x.recs) |-> x.recs[k].inst])
                  IN  DestroyEntries(IF build.app = "legacy" /\ ~s1.thrown
                                     THEN [s1 EXCEPT !.map = MapDelete(@, x.el)]
                                     ELSE s1,
                                     ctx, Tail(entries))

\* destroyModules(context) / the older destroy(context)
destroyModules(s, ctx) == DestroyEntries(s, ctx, s.map)

\* an update that initialises before it destroys
update_InitFirst(s, ctx) == destroyModules(initModules(s, ctx), ctx)

\* update(context)
update(s, ctx) == initModules(destroyModules(s, ctx), ctx)

----------------------------------------------------------------------------
(* The mutation observer of the App: whether it observes document.body     *)
(* with its subtree, the nodes removed from the observed tree since the    *)
(* last delivery (the platform goes on observing below them until it       *)
(* delivers), and the records queued for the next delivery.                *)

\* new MutationObserver(callback)
NoObserver == [on |-> FALSE, transient |-> {}, records |-> <<>>]

\* mutationObserver.observe(document.body, {childList: true, subtree: true})
observe(o) == [o EXCEPT !.on = TRUE]

\* a destroy that leaves the observer as it is
disconnect_Skip == [on |-> TRUE, transient |-> {}, records |-> <<>>]

\* mutationObserver.disconnect(): the queued records are dropped
disconnect == NoObserver

\* the nodes of a record besides the elements of the document: a text node,
\* and under the body an <svg> with a <g>, elements that are no HTMLElement
IsElementNode(n) == n \in Elems \cup {"body", "html", "svg", "g"}

MutationRecord(target, addedNodes, removedNodes) ==
    [target |-> target, addedNodes |-> addedNodes, removedNodes |-> removedNodes]

\* what the platform does when the children of target change: a record is
\* queued if the observer observes target, which it does below the body and
\* below every node removed since the last delivery; a removed node goes on
\* being observed until then
IsObserved(o, target) ==
    o.on /\ (contains("body", target) \/ \E r \in o.transient : contains(r, target))

queueRecord(o, mutation) ==
    IF IsObserved(o, mutation.target)
    THEN [o EXCEPT !.records = Append(@, mutation),
                   !.transient = @ \cup {n \in Elems :
                       \E k \in 1..Len(mutation.removedNodes) : mutation.removedNodes[k] = n}]
    ELSE o

\* the platform hands the queue to the callback and forgets the removed nodes
takeRecords(o) == [o EXCEPT !.records = <<>>, !.transient = {}]

\* for (const node of mutation.removedNodes)
RECURSIVE DestroyRemoved(_, _)
DestroyRemoved(s, nodes) ==
    IF nodes = <<>> \/ s.thrown THEN s
    ELSE DestroyRemoved(IF ~IsElementNode(Head(nodes)) THEN s
                        ELSE IF ~IsHTMLElement(Head(nodes)) THEN s
                        ELSE destroyModules(s, Head(nodes)),
                        Tail(nodes))

\* the callback of forEach for one record; the log notes the record first
MutationEach(s, mutation) ==
    LET s0 == [s EXCEPT !.log = Append(@, [op |-> "record", inst |-> Null,
                                           mutation |-> mutation])]
        s1 == DestroyRemoved(s0, mutation.removedNodes)
    IN  IF s1.thrown THEN s1
        ELSE IF ~IsHTMLElement(mutation.target) THEN s1
        ELSE initModules(s1, mutation.target)

\* a callback whose `return` ends the whole batch
RECURSIVE mutationCallback_Break(_, _)
mutationCallback_Break(s, mutations) ==
    IF mutations = <<>> \/ s.thrown THEN s
    ELSE IF ~IsHTMLElement(Head(mutations).target)
    THEN MutationEach(s, Head(mutations))
    ELSE mutationCallback_Break(MutationEach(s, Head(mutations)), Tail(mutations))

\* private mutationCallback(mutations): mutations.forEach(...)
RECURSIVE mutationCallback(_, _)
mutationCallback(s, mutations) ==
    IF mutations = <<>> \/ s.thrown THEN s
    ELSE mutationCallback(MutationEach(s, Head(mutations)), Tail(mutations))

----------------------------------------------------------------------------
(* The state machine *)

Contexts == Elems \cup {None}

\* markup of one element
MarkedTab == ("data-module-tab" :> "")
Greeting == ("data-module-tab" :> "") @@ ("data-tab-say" :> "hi")
MarkedMyTab == ("data-module-my-tab" :> "") @@ ("data-module-my_tab" :> "")

\* the documents a behaviour starts from
Documents == {[A |-> Greeting, B |-> MarkedMyTab, C |-> MarkedTab]}

\* the program state the operators work on; the log starts empty with each call
Prog == [insts |-> insts, prop |-> prop, map |-> map, dom |-> dom, log |-> <<>>,
         fail |-> NoFail, thrown |-> FALSE,
         reenter |-> NoReenter, depth |-> 0, overflow |-> FALSE]

Op(op, ctx, c, e, recreate, ret) ==
    [op |-> op, ctx |-> ctx, cls |-> c, el |-> e, recreate |-> recreate, ret |-> ret]

NoOp == Op("none", None, <<>>, None, FALSE, Null)

\* the call returns: its effects become the state
Commit(s, l) ==
    /\ Cardinality(DOMAIN s.insts) <= MaxInst
    /\ insts' = s.insts
    /\ prop' = s.prop
    /\ map' = s.map
    /\ dom' = s.dom
    /\ log' = s.log
    /\ last' = l

InitWith(B) ==
    /\ build \in B
    /\ attrs \in Documents
    /\ detached = {}
    /\ observer = NoObserver
    /\ insts = <<>>
    /\ prop = [e \in Elems |-> <<>>]
    /\ map = <<>>
    /\ dom = {}
    /\ log = <<>>
    /\ last = NoOp

\* app.init(context): initModules, then mutationObserver.observe(document.body,
\* {childList, subtree}); the older App has no observer
AppInit(ctx) ==
    /\ \E s \in {initModules(Prog, ctx)} : Commit(s, Op("init", ctx, <<>>, None, FALSE, Null))
    /\ observer' = IF build.app = "legacy" THEN observer ELSE observe(observer)
    /\ UNCHANGED <<build, attrs, detached>>

\* app.destroy(context): mutationObserver.disconnect(), then destroyModules
AppDestroy(ctx) ==
    /\ \E s \in {destroyModules(Prog, ctx)} : Commit(s, Op("destroy", ctx, <<>>, None, FALSE, Null))
    /\ observer' = IF build.app = "legacy" THEN observer ELSE disconnect
    /\ UNCHANGED <<build, attrs, detached>>

\* app.update(context)
AppUpdate(ctx) ==
    /\ \E s \in {update(Prog, ctx)} : Commit(s, Op("update", ctx, <<>>, None, FALSE, Null))
    /\ UNCHANGED <<build, attrs, detached, observer>>

\* C.create(element, recreate) called by the page
Create(c, e, recreate) ==
    /\ c \in Classes
    /\ \E r \in {create(Prog, c, e, recreate)} :
            Commit(r.s, Op("create", None, c, e, recreate, r.ret))
    /\ UNCHANGED <<build, attrs, detached, observer>>

\* what a call that threw hands to its caller
Thrown == <<"Error">>

\* C.findModuleInTree(element) called by the page
FindModuleInTree(c, element) ==
    /\ c \in Classes
    /\ \E r \in {findModuleInTree(Prog, c, element)} :
            Commit(r.s, Op("findModuleInTree", None, c, element, FALSE,
                           IF r.s.thrown THEN Thrown ELSE r.ret))
    /\ UNCHANGED <<build, attrs, detached, observer>>

\* the page takes element e out of its parent
RemoveChild(e) ==
    /\ e \notin detached
    /\ Len(observer.records) < MaxRecords
    /\ detached' = detached \cup {e}
    /\ observer' = queueRecord(observer, MutationRecord(Parent[e], <<>>, <<e>>))
    /\ log' = <<>>
    /\ last' = Op("removeChild", None, <<>>, e, FALSE, Null)
    /\ UNCHANGED <<build, attrs, insts, prop, map, dom>>

\* the page puts element e back into its parent
AppendChild(e) ==
    /\ e \in detached
    /\ Len(observer.records) < MaxRecords
    /\ detached' = detached \ {e}
    /\ observer' = queueRecord(observer, MutationRecord(Parent[e], <<e>>, <<>>))
    /\ log' = <<>>
    /\ last' = Op("appendChild", None, <<>>, e, FALSE, Null)
    /\ UNCHANGED <<build, attrs, insts, prop, map, dom>>

\* the page removes from target a child that is no HTML element
RemoveNode(target, node) ==
    /\ IsObserved(observer, target)
    /\ Len(observer.records) < MaxRecords
    /\ node = "g" => target = "svg"
    /\ observer' = queueRecord(observer, MutationRecord(target, <<>>, <<node>>))
    /\ log' = <<>>
    /\ last' = Op("removeNode", None, <<>>, None, FALSE, Null)
    /\ UNCHANGED <<build, attrs, insts, prop, map, dom, detached>>

\* the platform delivers the queued records: mutationCallback(mutations)
Deliver ==
    /\ observer.records # <<>>
    /\ \E s \in {mutationCallback(Prog, observer.records)} :
            Commit(s, Op("mutationCallback", None, <<>>, None, FALSE,
                         IF s.thrown THEN Thrown ELSE Null))
    /\ observer' = takeRecords(observer)
    /\ UNCHANGED <<build, attrs, detached>>

\* Bare.create(element): the first use of a subclass that declares no name
CreateUnnamed(c, e) ==
    /\ c \in Unnamed
    /\ \E r \in {create(Prog, c, e, FALSE)} :
            Commit(r.s, Op("create", None, c, e, FALSE, IF r.s.thrown THEN Thrown ELSE r.ret))
    /\ UNCHANGED <<build, attrs, detached, observer>>

\* instance.init() called by the page
InstanceInit(id) ==
    /\ id \in DOMAIN insts
    /\ \E s \in {ModuleInit(Prog, id)} :
            Commit(s, Op("instance.init", None, <<>>, None, FALSE, id))
    /\ UNCHANGED <<build, attrs, detached, observer>>

\* what a call that ran out of stack hands to its caller
RangeError == <<"RangeError">>

\* app.init(outer) while the init hook of the components on element e calls
\* App.instance.init(inner); the inner init also observes
AppInitReentrant(outer, e, inner) ==
    /\ \E s \in {initModules([Prog EXCEPT !.reenter = [el |-> e, ctx |-> inner]], outer)} :
            /\ Commit(s, Op("init.reentrant", outer, <<inner>>, e, FALSE,
                            IF s.overflow THEN RangeError
                            ELSE IF s.thrown THEN Thrown ELSE Null))
            /\ observer' = IF build.app = "legacy" THEN observer
                            ELSE IF s.thrown /\ \A k \in 1..Len(s.log) :
                                                  ~(s.log[k].op = "init" /\ s.log[k].inst[2] = e)
                            THEN observer
                            ELSE observe(observer)
    /\ UNCHANGED <<build, attrs, detached>>

\* app.init(context) while the init hook of the components on element e throws
AppInitThrows(ctx, e) ==
    /\ \E s \in {initModules([Prog EXCEPT !.fail = [op |-> "init", el |-> e]], ctx)} :
            /\ Commit(s, Op("init", ctx, <<>>, e, FALSE, IF s.thrown THEN Thrown ELSE Null))
            /\ observer' = IF build.app = "legacy" \/ s.thrown THEN observer
                            ELSE observe(observer)
    /\ UNCHANGED <<build, attrs, detached>>

\* app.destroy(context) while the destroy hook of the components on element e throws
AppDestroyThrows(ctx, e) ==
    /\ \E s \in {destroyModules([Prog EXCEPT !.fail = [op |-> "destroy", el |-> e]], ctx)} :
            Commit(s, Op("destroy", ctx, <<>>, e, FALSE, IF s.thrown THEN Thrown ELSE Null))
    /\ observer' = IF build.app = "legacy" THEN observer ELSE disconnect
    /\ UNCHANGED <<build, attrs, detached>>

\* the page rewrites the value of a data attribute an element carries
SetAttribute(e, v) ==
    /\ hasAttribute(e, "data-tab-say")
    /\ attrs[e]["data-tab-say"] # v
    /\ attrs' = [attrs EXCEPT ![e]["data-tab-say"] = v]
    /\ log' = <<>>
    /\ last' = Op("setAttribute", None, <<>>, e, FALSE, Null)
    /\ UNCHANGED <<build, insts, prop, map, dom, detached, observer>>

TargetLists == {<<"A">>, <<"B">>, <<"A", "B">>}
Types == {"click"}
Methods == {"onClick", "onKey"}
MaxListeners == 3   \* listeners attached to the document at one time
MaxWrapped == 1     \* closures one instance wraps

\* instance.addEventListener(targets, type, this.m, options)
AddEventListener(id, targets, type, m, capture) ==
    /\ id \in DOMAIN insts
    /\ \E s \in {addEventListener(Prog, id, targets, type, Listener(id, m, 0), capture)} :
            /\ Cardinality(s.dom) <= MaxListeners
            /\ Commit(s, Op("addEventListener", None, <<>>, None, FALSE, id))
    /\ UNCHANGED <<build, attrs, detached, observer>>

\* instance.addFilteredEventListener(targets, type, this.m, selector, options)
AddFilteredEventListener(id, targets, type, m, capture) ==
    /\ id \in DOMAIN insts
    /\ insts[id].made < MaxWrapped
    /\ \E s \in {addFilteredEventListener(Prog, id, targets, type, m, capture)} :
            /\ Cardinality(s.dom) <= MaxListeners
            /\ Commit(s, Op("addEventListener", None, <<>>, None, FALSE, id))
    /\ UNCHANGED <<build, attrs, detached, observer>>

\* instance.removeEventListener(targets, type, options)
RemoveEventListener(id, targets, type, capture) ==
    /\ id \in DOMAIN insts
    /\ \E s \in {removeEventListener(Prog, id, targets, type, capture)} :
            Commit(s, Op("removeEventListener", None, <<>>, None, FALSE, id))
    /\ UNCHANGED <<build, attrs, detached, observer>>

\* instance.destroy() called by the page
Destroy(id) ==
    /\ id \in DOMAIN insts
    /\ \E s \in {ModuleDestroy(Prog, id)} :
            Commit(s, Op("instance.destroy", None, <<>>, None, FALSE, id))
    /\ UNCHANGED <<build, attrs, detached, observer>>

\* the selectors a component passes: bare words, of which "a" is also a tag,
\* and selectors with a class, an id or an attribute marker
Selectors ==
    {<<"a">>, <<"b">>, <<"a", "b">>, <<".", "a">>, <<"#", "a">>, <<"a", ".", "b">>,
     <<"a", "#", "b">>, <<"[", "a", "]">>, <<"a", "[", "b", "]">>}

QueryFunctions == {"$", "$all", "$parent", "getModuleSelectorFilteredEventListener"}

\* a platform call with a selector, as the log records it
Queried(fn, id, selector, r) ==
    [op |-> fn, inst |-> id, selector |-> selector, query |-> r.query, ret |-> r.ret]

\* instance.$(..), instance.$all(..), instance.$parent(..) and
\* instance.getModuleSelectorFilteredEventListener(selector, listener), whose
\* query is the selector of the closure it returns
ModuleQuery(id, fn, selector, ctx, useModuleSelector) ==
    /\ id \in DOMAIN insts
    /\ fn = "getModuleSelectorFilteredEventListener"
            => build.mod = "tree" /\ ctx = None /\ useModuleSelector
    /\ \E r \in {CASE fn = "$" -> Query(insts[id], selector, ctx, useModuleSelector)
                   [] fn = "$all" -> QueryAll(insts[id], selector, ctx, useModuleSelector)
                   [] fn = "$parent" -> QueryParent(insts[id], selector, ctx, useModuleSelector)
                   [] OTHER -> [query |-> getSelectorQuery(insts[id], selector), ret |-> <<>>]} :
            log' = <<Queried(fn, id, selector, r)>>
    /\ last' = Op(fn, ctx, <<>>, None, FALSE, id)
    /\ UNCHANGED <<build, attrs, insts, prop, map, dom, detached, observer>>

\* instance.addEventListener(targets, type, this.m, options), targets a string:
\* $targets = this.$all(targets)
AddEventListenerAll(id, selector, type, m, capture) ==
    /\ id \in DOMAIN insts
    /\ build.mod = "tree"
    /\ \E r \in {QueryAll(insts[id], selector, None, TRUE)} :
         \E s \in {addEventListener(Prog, id, r.ret, type, Listener(id, m, 0), capture)} :
            /\ Cardinality(s.dom) <= MaxListeners
            /\ Commit([s EXCEPT !.log = <<Queried("addEventListener", id, selector, r)>>],
                      Op("addEventListener", None, <<>>, None, FALSE, id))
    /\ UNCHANGED <<build, attrs, detached, observer>>

Nodes == Elems \cup {"html", "document"}

\* the selectors handed to findParent and to the selector filter
QuerySelectors == {"a", "div", "html", "[data-module-tab]", "[data-tab=\"a\"]"}

\* findParent(element, selector, limit) called by the page
FindParent(element, selector, limit) ==
    /\ log' = <<[op |-> "findParent", element |-> element, selector |-> selector,
                 limit |-> limit, ret |-> findParent(element, selector, limit)]>>
    /\ last' = Op("findParent", None, <<>>, None, FALSE, Null)
    /\ UNCHANGED <<build, attrs, insts, prop, map, dom, detached, observer>>

\* an event dispatched to target reaches node at, where the page attached
\* getEventFilteredEventListener(element, listener)
DispatchEventFiltered(element, at, target) ==
    /\ at \in composedPath(target)
    /\ log' = <<[op |-> "eventFiltered", element |-> element, at |-> at, target |-> target]>>
                \o getEventFilteredEventListener(element, Event(target, at))
    /\ last' = Op("dispatchEvent", None, <<>>, None, FALSE, Null)
    /\ UNCHANGED <<build, attrs, insts, prop, map, dom, detached, observer>>

\* an event dispatched to target reaches node at, where the page attached
\* getSelectorFilteredEventListener(selector, listener)
DispatchSelectorFiltered(selector, at, target) ==
    /\ at \in composedPath(target)
    /\ log' = <<[op |-> "selectorFiltered", selector |-> selector, at |-> at,
                 target |-> target]>>
                \o getSelectorFilteredEventListener(selector, Event(target, at))
    /\ last' = Op("dispatchEvent", None, <<>>, None, FALSE, Null)
    /\ UNCHANGED <<build, attrs, insts, prop, map, dom, detached, observer>>

\* an event dispatched to target reaches node at, where instance id attached
\* the closure of addFilteredEventListener(at, type, listener, selector)
FilteredEvent(id, at, selector, target) ==
    /\ id \in DOMAIN insts
    /\ \E l \in dom : l.target = at /\ l.fn[1] = id /\ l.fn[3] > 0
    /\ at \in composedPath(target)
    /\ log' = <<[op |-> "filteredEvent", inst |-> id, at |-> at, target |-> target,
                 query |-> getSelectorQuery(insts[id], selector)]>>
                \o getSelectorFilteredEventListener(getSelectorQuery(insts[id], selector),
                                                    Event(target, at))
    /\ last' = Op("dispatchEvent", None, <<>>, None, FALSE, Null)
    /\ UNCHANGED <<build, attrs, insts, prop, map, dom, detached, observer>>

EventNames == {"open", "close", "constructor"}
Callbacks == {"cb1", "cb2"}

\* instance.on(eventName, callback)
On(id, eventName, callback) ==
    /\ id \in DOMAIN insts
    /\ build.mod # "tree"
    /\ \E s \in {on(Prog, id, eventName, callback)} :
            Commit(s, Op("on", None, <<>>, None, FALSE, IF s.thrown THEN Thrown ELSE id))
    /\ UNCHANGED <<build, attrs, detached, observer>>

\* instance.off(eventName, callback)
Off(id, eventName, callback) ==
    /\ id \in DOMAIN insts
    /\ build.mod # "tree"
    /\ \E s \in {off(Prog, id, eventName, callback)} :
            Commit(s, Op("off", None, <<>>, None, FALSE, IF s.thrown THEN Thrown ELSE id))
    /\ UNCHANGED <<build, attrs, detached, observer>>

\* the page calls a handle that on(eventName, callback) returned
Unsubscribe(id, eventName, callback) ==
    /\ id \in DOMAIN insts
    /\ <<eventName, callback>> \in insts[id].handles
    /\ \E s \in {off(Prog, id, eventName, callback)} :
            Commit(s, Op("unsubscribe", None, <<>>, None, FALSE, IF s.thrown THEN Thrown ELSE id))
    /\ UNCHANGED <<build, attrs, detached, observer>>

\* instance.emit(eventName)
Emit(id, eventName) ==
    /\ id \in DOMAIN insts
    /\ build.mod # "tree"
    /\ \E s \in {emit(Prog, id, eventName)} :
            Commit(s, Op("emit", None, <<>>, None, FALSE, IF s.thrown THEN Thrown ELSE id))
    /\ UNCHANGED <<build, attrs, detached, observer>>

\* the detail objects a caller passes: no field, a value, a module field of
\* its own, or both
DetailValues == {<<"3">>, <<"other">>}
Details ==
    {<<>>}
    \cup {("value" :> v) : v \in DetailValues}
    \cup {("module" :> v) : v \in DetailValues}
    \cup {("value" :> v) @@ ("module" :> w) : v \in DetailValues, w \in DetailValues}

EventTypes == {"updated", "closed"}

\* instance.dispatchDomEvent(type, detail); the log begins with the call
DispatchDomEvent(id, type, detail) ==
    /\ id \in DOMAIN insts
    /\ build.mod = "tree"
    /\ \E s \in {dispatchDomEvent(
                     [Prog EXCEPT !.log = <<[op |-> "dispatchDomEvent", inst |-> id,
                                             type |-> type, detail |-> detail]>>],
                     id, type, detail)} :
            Commit(s, Op("dispatchDomEvent", None, <<>>, None, FALSE, id))
    /\ UNCHANGED <<build, attrs, detached, observer>>

\* the names and values a component passes to getData and setData; a null
\* value is written as the null getAttribute answers with
DataNames == {"say", "count", ""}
DataValues == {"hi", "bye", NullAttr}

\* instance.setData(name, value, context)
SetData(id, name, value, ctx) ==
    /\ id \in DOMAIN insts
    /\ attrs' = setData(attrs, insts[id], name, value, ctx)
    /\ log' = <<>>
    /\ last' = Op("setData", ctx, <<>>, None, FALSE, id)
    /\ UNCHANGED <<build, insts, prop, map, dom, detached, observer>>

\* instance.getData(name, context); the log holds the answer
GetData(id, name, ctx) ==
    /\ id \in DOMAIN insts
    /\ log' = <<[op |-> "getData", inst |-> id, name |-> name,
                 ret |-> getData(insts[id], name, ctx)]>>
    /\ last' = Op("getData", ctx, <<>>, None, FALSE, id)
    /\ UNCHANGED <<build, attrs, insts, prop, map, dom, detached, observer>>

\* the type names handed to the naming resolver: letters of both cases, a
\* digit, and an uppercase letter outside A-Z
MaxName == 3
NameChars == {"T", "a", "B", "1", "É"}
TypeNames == UNION {[1..n -> NameChars] : n \in 1..MaxName}

\* pascalToKebab(pascalString) called with a type name; the log holds the token
PascalToKebab(s) ==
    /\ log' = <<[op |-> "pascalToKebab", input |-> s, ret |-> pascalToKebab(s)]>>
    /\ last' = Op("pascalToKebab", None, s, None, FALSE, Null)
    /\ UNCHANGED <<build, attrs, insts, prop, map, dom, detached, observer>>

Next ==
    \/ \E ctx \in Contexts : AppInit(ctx)
    \/ \E ctx \in Contexts : AppDestroy(ctx)
    \/ \E ctx \in Contexts : AppUpdate(ctx)
    \/ \E c \in ClassNames, e \in Elems, recreate \in BOOLEAN : Create(c, e, recreate)
    \/ \E e \in Elems, v \in {"hi", "bye"} : SetAttribute(e, v)

BuildTs == [app |-> "ts", mod |-> "tree"]
BuildDist == [app |-> "dist", mod |-> "tree"]
BuildGetter == [app |-> "legacy", mod |-> "getter"]
BuildStatic == [app |-> "legacy", mod |-> "static"]

\* src/src/App.ts and src/dist/lib/App.js, each with the Module of part_007
Init == InitWith({BuildTs, BuildDist})
Spec == Init /\ [][Next]_vars

\* src/src/App.ts with the Module of part_007
InitTs == InitWith({BuildTs})
SpecTs == InitTs /\ [][Next]_vars

\* src/dist/lib/App.js with the Module of part_007
InitDist == InitWith({BuildDist})
SpecDist == InitDist /\ [][Next]_vars

\* the Module classes whose create is cited for identity: part_007 and src/src/Module.ts
\* with the registry operations and create, on the document as it is
NextIdentity ==
    \/ \E ctx \in Contexts : AppInit(ctx)
    \/ \E ctx \in Contexts : AppDestroy(ctx)
    \/ \E ctx \in Contexts : AppUpdate(ctx)
    \/ \E c \in ClassNames, e \in Elems, recreate \in BOOLEAN : Create(c, e, recreate)

InitIdentity == InitWith({BuildTs, BuildGetter})
SpecIdentity == InitIdentity /\ [][NextIdentity]_vars

\* the Module of part_008 under the App of part_001
InitStatic == InitWith({BuildStatic})
SpecStatic == InitStatic /\ [][Next]_vars

\* documents whose element C also carries the skip markers of both App
\* generations, with an empty or a non-empty value
SkipDocuments ==
    {[A |-> Greeting, B |-> MarkedMyTab,
      C |-> MarkedTab @@ ("data-ignore-module" :> v) @@ ("data-depends-on" :> v)] :
        v \in {"", "true"}}

\* the state after construction for builds B and documents D
InitOn(B, D) ==
    /\ build \in B
    /\ attrs \in D
    /\ detached = {}
    /\ observer = NoObserver
    /\ insts = <<>>
    /\ prop = [e \in Elems |-> <<>>]
    /\ map = <<>>
    /\ dom = {}
    /\ log = <<>>
    /\ last = NoOp

\* src/src/App.ts and the App of part_001 scanning documents with skip markers
InitSkip == InitOn({BuildTs, BuildGetter}, SkipDocuments)
SpecSkip == InitSkip /\ [][Next]_vars

\* src/src/App.ts scanning documents with skip markers
InitSkipTs == InitOn({BuildTs}, SkipDocuments)
SpecSkipTs == InitSkipTs /\ [][Next]_vars

\* a document whose element A carries the discovery attributes of both
\* registered components
BothDocuments == {[A |-> Greeting @@ MarkedMyTab, B |-> <<>>, C |-> MarkedTab]}

\* src/src/App.ts with the Module of part_007, and the App of part_001 with the
\* Module of part_008, on that document
InitBoth == InitOn({BuildTs, BuildStatic}, BothDocuments)
SpecBoth == InitBoth /\ [][Next]_vars

\* src/src/App.ts with components whose hooks may throw
NextThrow ==
    \/ \E ctx \in Contexts : AppInit(ctx)
    \/ \E ctx \in Contexts : AppDestroy(ctx)
    \/ \E ctx \in Contexts, e \in Elems : AppInitThrows(ctx, e)
    \/ \E ctx \in Contexts, e \in Elems : AppDestroyThrows(ctx, e)

SpecThrow == InitTs /\ [][NextThrow]_vars

\* the identifiers instances can take
Ids == ClassNames \X Elems \X (1..MaxInst)

\* the page creates the component of element A, which registers and removes
\* listeners on itself and on a child, and destroys it
NextListeners ==
    \/ Create(Tab, "A", FALSE)
    \/ \E id \in Ids, targets \in TargetLists, type \in Types, m \in Methods,
          capture \in BOOLEAN : AddEventListener(id, targets, type, m, capture)
    \/ \E id \in Ids, targets \in TargetLists, type \in Types, m \in Methods,
          capture \in BOOLEAN : AddFilteredEventListener(id, targets, type, m, capture)
    \/ \E id \in Ids, targets \in TargetLists, type \in Types, capture \in BOOLEAN :
          RemoveEventListener(id, targets, type, capture)
    \/ \E id \in Ids : Destroy(id)

SpecListeners == InitTs /\ [][NextListeners]_vars

\* the same page registering its methods directly, without wrapped closures
NextRemove ==
    \/ Create(Tab, "A", FALSE)
    \/ \E id \in Ids, targets \in TargetLists, type \in Types, m \in Methods,
          capture \in BOOLEAN : AddEventListener(id, targets, type, m, capture)
    \/ \E id \in Ids, targets \in TargetLists, type \in Types, capture \in BOOLEAN :
          RemoveEventListener(id, targets, type, capture)
    \/ \E id \in Ids : Destroy(id)

SpecRemove == InitTs /\ [][NextRemove]_vars

\* a document whose link B carries the scoped names of both conventions
SelectDocuments ==
    {[A |-> Greeting, B |-> ("data-tab" :> "a") @@ ("data-tab-a" :> ""), C |-> MarkedTab]}

\* the page creates the components of element A and lets them query their
\* scope, from their own element or from the link B
NextSelect ==
    \/ \E c \in ClassNames : Create(c, "A", FALSE)
    \/ \E id \in Ids, fn \in QueryFunctions, selector \in Selectors, ctx \in {None, "B"},
          useModuleSelector \in BOOLEAN : ModuleQuery(id, fn, selector, ctx, useModuleSelector)
    \/ \E id \in Ids, selector \in Selectors, type \in Types, m \in Methods,
          capture \in BOOLEAN : AddEventListenerAll(id, selector, type, m, capture)

\* the Module of part_007 and the Module of part_008
InitSelect == InitOn({BuildTs, BuildStatic}, SelectDocuments)
SpecSelect == InitSelect /\ [][NextSelect]_vars

\* the page calls findParent and dispatches events to filtered listeners
NextUtils ==
    \/ \E element \in Elems \cup {"html"}, selector \in QuerySelectors,
          limit \in Nodes \cup {None} : FindParent(element, selector, limit)
    \/ \E element \in Elems \cup {"html"}, at \in Nodes, target \in Nodes :
          DispatchEventFiltered(element, at, target)
    \/ \E selector \in QuerySelectors, at \in Nodes, target \in Nodes :
          DispatchSelectorFiltered(selector, at, target)

\* the utilities of part_006 and those of the bundle dist/index.esm.js
InitUtils == InitOn({BuildTs, BuildDist}, SelectDocuments \cup Documents)
SpecUtils == InitUtils /\ [][NextUtils]_vars

\* the utilities of part_006 alone
InitUtilsTs == InitOn({BuildTs}, SelectDocuments \cup Documents)
SpecUtilsTs == InitUtilsTs /\ [][NextUtils]_vars

\* the page creates the component of element A, subscribes to its events,
\* unsubscribes, emits and destroys it
NextEmit ==
    \/ Create(tab, "A", FALSE)
    \/ \E id \in Ids, eventName \in EventNames, callback \in Callbacks :
          On(id, eventName, callback)
    \/ \E id \in Ids, eventName \in EventNames, callback \in Callbacks :
          Off(id, eventName, callback)
    \/ \E id \in Ids, eventName \in EventNames, callback \in Callbacks :
          Unsubscribe(id, eventName, callback)
    \/ \E id \in Ids, eventName \in EventNames : Emit(id, eventName)
    \/ \E id \in Ids : Destroy(id)

\* the bundle part_001: Module extends EventEmitter
InitEmit == InitOn({BuildGetter}, Documents)
SpecEmit == InitEmit /\ [][NextEmit]_vars

\* the page creates the components of the elements A and C, subscribes to
\* their event "open" with one callback, emits it and destroys them
NextTeardown ==
    \/ \E e \in {"A", "C"} : Create(tab, e, FALSE)
    \/ \E id \in Ids, eventName \in {"open"}, callback \in {"cb1"} :
          On(id, eventName, callback)
    \/ \E id \in Ids, eventName \in {"open"}, callback \in {"cb1"} :
          Off(id, eventName, callback)
    \/ \E id \in Ids, eventName \in {"open"}, callback \in {"cb1"} :
          Unsubscribe(id, eventName, callback)
    \/ \E id \in Ids, eventName \in EventNames : Emit(id, eventName)
    \/ \E id \in Ids : Destroy(id)

\* src/src/Module.ts and the Module of part_008, both extending EventEmitter
InitTeardown == InitOn({BuildGetter, BuildStatic}, Documents)
SpecTeardown == InitTeardown /\ [][NextTeardown]_vars

\* src/src/Module.ts alone
InitTeardownTs == InitOn({BuildGetter}, Documents)
SpecTeardownTs == InitTeardownTs /\ [][NextTeardown]_vars

\* the page creates components on the elements A and B, which dispatch events
NextDispatch ==
    \/ \E c \in ClassNames, e \in {"A", "B"} : Create(c, e, FALSE)
    \/ \E id \in Ids, type \in EventTypes, detail \in Details :
          DispatchDomEvent(id, type, detail)

SpecDispatch == InitTs /\ [][NextDispatch]_vars

\* the page creates the component of element A, which reads and writes its
\* data attributes on its element and on the child B
NextData ==
    \/ Create(Tab, "A", FALSE)
    \/ \E id \in Ids, name \in DataNames, value \in DataValues, ctx \in {None, "B"} :
          SetData(id, name, value, ctx)
    \/ \E id \in Ids, name \in DataNames, ctx \in {None, "B"} : GetData(id, name, ctx)

SpecData == InitTs /\ [][NextData]_vars

\* the naming resolver applied to type names
NextKebab == \E s \in TypeNames : PascalToKebab(s)

SpecKebab == InitTs /\ [][NextKebab]_vars

\* src/src/App.ts with the Module of part_007 and components whose
\* `static name` is written in kebab-case
BuildKebabNames == [app |-> "ts", mod |-> "tree", names |-> "kebab"]

\* a document marked as the README describes: data-module-<kebab-case name>
KebabDocuments ==
    {[A |-> Greeting, B |-> ("data-module-my-tab" :> ""), C |-> MarkedTab]}

\* components named in PascalCase and components named in kebab-case
InitNames == InitOn({BuildTs, BuildKebabNames}, KebabDocuments)
SpecNames == InitNames /\ [][Next]_vars

\* components named in kebab-case alone
InitKebabNames == InitOn({BuildKebabNames}, KebabDocuments)
SpecKebabNames == InitKebabNames /\ [][Next]_vars

\* a page that also uses a subclass without a name, under the Module of
\* src/src/Module.ts and under the Module of src/dist/lib/Module.js
NextUnnamed ==
    \/ \E ctx \in Contexts : AppInit(ctx)
    \/ \E ctx \in Contexts : AppDestroy(ctx)
    \/ \E c \in ClassNames, e \in Elems, recreate \in BOOLEAN : Create(c, e, recreate)
    \/ \E c \in ClassNames, e \in Elems : CreateUnnamed(c, e)
    \/ \E id \in Ids : Destroy(id)

InitUnnamed == InitOn({BuildGetter, BuildStatic}, Documents)
SpecUnnamed == InitUnnamed /\ [][NextUnnamed]_vars

\* the Module of src/src/Module.ts alone
InitUnnamedTs == InitOn({BuildGetter}, Documents)
SpecUnnamedTs == InitUnnamedTs /\ [][NextUnnamed]_vars

\* documents in which the link B, inside A, is a module element of the same
\* component as A, or of another one
TreeDocuments ==
    Documents \cup {[A |-> Greeting, B |-> MarkedTab, C |-> MarkedTab]}

\* the page creates and destroys components and looks them up from the
\* elements of the document, the root element included
NextTree ==
    \/ \E ctx \in {None, "A"} : AppInit(ctx)
    \/ \E c \in ClassNames, e \in Elems, recreate \in BOOLEAN : Create(c, e, recreate)
    \/ \E id \in Ids : Destroy(id)
    \/ \E c \in ClassNames, element \in Elems \cup {"html"} : FindModuleInTree(c, element)

InitTree == InitOn({BuildTs}, TreeDocuments)
SpecTree == InitTree /\ [][NextTree]_vars

\* the page starts the App, changes the document and the platform delivers
\* the records; the App may be stopped
NextReactor ==
    \/ AppInit(None)
    \/ AppDestroy(None)
    \/ \E e \in Elems : RemoveChild(e)
    \/ \E e \in Elems : AppendChild(e)
    \/ \E target \in {"A", "B", "svg"}, node \in {"#text", "g"} : RemoveNode(target, node)
    \/ Deliver

InitReactor == InitOn({BuildTs}, TreeDocuments)
SpecReactor == InitReactor /\ [][NextReactor]_vars

\* the same on the document whose components are all named "Tab"
InitReactorTab == InitOn({BuildTs}, TreeDocuments \ Documents)
SpecReactorTab == InitReactorTab /\ [][NextReactor]_vars

\* the registry with components whose init hook calls init
NextReenter ==
    \/ \E outer \in {None, "A"}, e \in Elems, inner \in Elems :
          AppInitReentrant(outer, e, inner)
    \/ \E ctx \in Contexts : AppInit(ctx)
    \/ \E ctx \in Contexts : AppDestroy(ctx)

InitReenter == InitOn({BuildTs, BuildDist}, Documents)
SpecReenter == InitReenter /\ [][NextReenter]_vars

\* src/dist/lib/App.js alone
InitReenterDist == InitOn({BuildDist}, Documents)
SpecReenterDist == InitReenterDist /\ [][NextReenter]_vars

\* the page creates the components of element A, activates them, lets them
\* register listeners, destroys and activates them again, while the value of
\* the module attribute of the link B changes
NextFresh ==
    \/ \E c \in {Tab, MyTab} : Create(c, "A", FALSE)
    \/ \E id \in Ids : InstanceInit(id)
    \/ \E id \in Ids : Destroy(id)
    \/ \E id \in Ids, type \in Types, m \in {"onClick"} :
          AddEventListener(id, <<"B">>, type, m, FALSE)
    \/ \E id \in Ids, value \in {"hi", NullAttr} : SetData(id, "", value, "B")

InitFresh == InitOn({BuildTs}, SelectDocuments)
SpecFresh == InitFresh /\ [][NextFresh]_vars

\* the registry and the page activate and destroy components, and the page
\* asks the factory and the tree lookup for them afterwards
NextRebind ==
    \/ \E ctx \in {None, "A"} : AppInit(ctx)
    \/ \E ctx \in {None, "A"} : AppDestroy(ctx)
    \/ \E c \in {Tab, MyTab}, e \in Elems : Create(c, e, FALSE)
    \/ \E id \in Ids : Destroy(id)
    \/ \E c \in {Tab, MyTab}, element \in Elems : FindModuleInTree(c, element)

InitRebind == InitOn({BuildTs}, TreeDocuments)
SpecRebind == InitRebind /\ [][NextRebind]_vars

\* the registry is started, stopped and refreshed on the document and on
\* subtrees of it while the page takes elements out and puts them back
NextObserver ==
    \/ \E ctx \in {None, "A"} : AppInit(ctx)
    \/ \E ctx \in {None, "A", "B"} : AppDestroy(ctx)
    \/ \E ctx \in {None, "B"} : AppUpdate(ctx)
    \/ \E e \in Elems : RemoveChild(e)
    \/ \E e \in Elems : AppendChild(e)
    \/ Deliver

InitObserver == InitOn({BuildTs}, Documents)
SpecObserver == InitObserver /\ [][NextObserver]_vars

\* a document whose link B carries a scoped name of the component of A, and
\* one where the component of B lies inside an element that carries one
FilterDocuments ==
    {[A |-> MarkedTab, B |-> ("data-tab" :> "a"), C |-> MarkedTab],
     [A |-> ("data-tab" :> "a"), B |-> MarkedTab, C |-> MarkedTab]}

\* the page creates components on A and B, which attach a selector-filtered
\* listener to an element, and the user clicks
NextFilter ==
    \/ \E e \in {"A", "B"} : Create(Tab, e, FALSE)
    \/ \E id \in Ids, targets \in {<<"A">>, <<"B">>}, type \in Types, m \in Methods :
          AddFilteredEventListener(id, targets, type, m, FALSE)
    \/ \E id \in Ids, at \in {"A", "B"}, selector \in {<<"a">>, <<"b">>}, target \in Elems :
          FilteredEvent(id, at, selector, target)
    \/ \E id \in Ids : Destroy(id)

InitFilter == InitOn({BuildTs}, FilterDocuments)
SpecFilter == InitFilter /\ [][NextFilter]_vars

\* documents whose link B carries no discovery attribute, inside the
\* component of A
PlainChildDocuments ==
    {[A |-> MarkedTab, B |-> <<>>, C |-> MarkedTab],
     [A |-> MarkedMyTab, B |-> <<>>, C |-> MarkedTab]}

\* the registry watches the document while the page takes elements out and
\* puts them back
NextPlainChild ==
    \/ AppInit(None)
    \/ AppDestroy(None)
    \/ \E e \in Elems : RemoveChild(e)
    \/ \E e \in Elems : AppendChild(e)
    \/ Deliver

InitPlainChild == InitOn({BuildTs, BuildDist}, PlainChildDocuments)
SpecPlainChild == InitPlainChild /\ [][NextPlainChild]_vars

\* the same with src/dist/lib/App.js alone
InitPlainChildDist == InitOn({BuildDist}, PlainChildDocuments)
SpecPlainChildDist == InitPlainChildDist /\ [][NextPlainChild]_vars

----------------------------------------------------------------------------
(* Helpers of the properties *)

\* the (element, key, instance) triples the map holds
Tracked(m) ==
    UNION {{<<m[k].el, m[k].recs[j].key, m[k].recs[j].inst>> : j \in 1..Len(m[k].recs)} :
        k \in 1..Len(m)}

TrackedPairs(m) == {<<x[1], x[2]>> : x \in Tracked(m)}

\* e is the context or lies below it, read off the document's shape
InScope(ctx, e) == ctx = None \/ ctx = e \/ (ctx = "A" /\ e = "B")

\* the hooks a call has run, and the registered class recorded under a key
Hooks(l) == {l[k] : k \in 1..Len(l)}
ClassOf(key) == CHOOSE c \in Classes : AppName(c) = key

Count(seq, x) == Cardinality({k \in 1..Len(seq) : seq[k] = x})

----------------------------------------------------------------------------
(* C1.  Two consecutive calls C.create(e) without recreate return the same *)
(* instance: the second call constructs nothing (no hook runs, no instance *)
(* is added) and returns the instance the first call returned.             *)
C1_CreateTwiceSame ==
    [][(/\ last.op = "create" /\ ~last.recreate
        /\ last'.op = "create" /\ ~last'.recreate
        /\ last'.cls = last.cls /\ last'.el = last.el)
       => (last'.ret = last.ret /\ insts' = insts /\ log' = <<>>)]_vars

\* a create without recreate has returned an instance that existed before the
\* call and was never initialised or destroyed: an earlier create made it
C1_Witness ==
    /\ last.op = "create" /\ ~last.recreate /\ log = <<>>
    /\ last.ret # Null /\ insts[last.ret].status = "constructed"

(* C2.  C.create(e, true) after a prior create(e) returns another instance *)
(* and has run the prior instance's destroy() exactly once; over a whole   *)
(* Registry.update no instance has its destroy hook run more than once.    *)
C2_RecreateDestroysOnce ==
    [][/\ (last'.op = "create" /\ last'.recreate /\ getInstance(Prog, last'.cls, last'.el) # Null)
            => LET old == getInstance(Prog, last'.cls, last'.el)
               IN  last'.ret # old /\ Count(log', Hook("destroy", old)) = 1
       /\ last'.op = "update"
            => \A i \in DOMAIN insts : Count(log', Hook("destroy", i)) <= 1]_vars

(* C3.  Invariant I1: for every element and component class at most one    *)
(* instance has been initialised and not destroyed since.                  *)
C3_SingletonPerElement ==
    \A c \in Classes, e \in Elems :
        Cardinality({i \in DOMAIN insts :
            insts[i].cls = c /\ insts[i].el = e /\ insts[i].status = "initialized"}) <= 1

(* C4.  When instance.destroy() has returned, no listener the instance    *)
(* registered through addEventListener / addFilteredEventListener is still *)
(* attached to a target, however many were registered on one (target,      *)
(* type) pair and whatever their options.                                  *)
C4_DestroyDetachesAll ==
    last.op = "instance.destroy" => \A d \in dom : d.fn[1] # last.ret

(* C5.  Invariant I2: for every instance that is not destroyed, each       *)
(* listener it attached and has not removed is the listener its table      *)
(* holds for that (target, type) pair.                                     *)
C5_AttachedIsInTable ==
    \A id \in DOMAIN insts : insts[id].status # "destroyed" =>
        \A d \in dom : d.fn[1] = id =>
            /\ <<d.target, d.type>> \in DOMAIN insts[id].table
            /\ insts[id].table[<<d.target, d.type>>] = d.fn

(* C6.  Invariant I3 / P5: Registry.destroy(context) runs the destroy hook *)
(* of exactly the tracked instances whose element is the context or lies   *)
(* below it, each once; every tracked instance outside the context has no  *)
(* hook run, is left as it was and stays tracked.                          *)
C6_DestroyExactlyInScope ==
    [][last'.op = "destroy" =>
        LET inside == {x \in Tracked(map) : InScope(last'.ctx, x[1])}
        IN  /\ Hooks(log') = {Hook("destroy", x[3]) : x \in inside}
            /\ Len(log') = Cardinality({x[3] : x \in inside})
            /\ \A x \in Tracked(map) \ inside :
                    x \in Tracked(map') /\ insts'[x[3]] = insts[x[3]]]_vars

\* destroy(A) has torn down the instances of A and of its child B while the
\* instance of the sibling C is still tracked and initialised
C6_Witness ==
    /\ last.op = "destroy" /\ last.ctx = "A"
    /\ {h.inst[2] : h \in Hooks(log)} = {"A", "B"}
    /\ \E x \in Tracked(map) : x[1] = "C" /\ insts[x[3]].status = "initialized"

(* C7.  When Registry.destroy(context) has returned, the map holds no      *)
(* entry for an element that is the context or lies below it, whatever the *)
(* class name of the component; with no context the map is empty.          *)
C7_DestroyUntracks ==
    last.op = "destroy" => \A x \in Tracked(map) : ~InScope(last.ctx, x[1])

C9_UpdateDestroyThenInit ==
    [][last'.op = "update" =>
        /\ \A j, k \in 1..Len(log') :
              (log'[j].op = "destroy" /\ log'[k].op = "init") => j < k
        /\ \A x \in Tracked(map) :
              InScope(last'.ctx, x[1]) => Hook("destroy", x[3]) \in Hooks(log')
        /\ \A x \in Tracked(map') :
              InScope(last'.ctx, x[1]) =>
                 /\ Hook("init", x[3]) \in Hooks(log')
                 /\ insts'[x[3]].status = "initialized"
                 /\ insts'[x[3]].say = getAttribute(x[1], "data-" \o insts'[x[3]].name \o "-say")]_vars

\* an update has destroyed an instance initialised earlier and initialised it
\* again, and the instance now holds the rewritten value "bye"
C9_Witness ==
    /\ last.op = "update"
    /\ \E x \in Tracked(map) :
          /\ Hook("destroy", x[3]) \in Hooks(log)
          /\ Hook("init", x[3]) \in Hooks(log)
          /\ getAttribute(x[1], "data-tab-say") = "bye"
          /\ insts[x[3]].say = "bye"

(* C10.  Registry.init is idempotent on tracked elements: for an element   *)
(* in the context that is already tracked for an identifier, init does not *)
(* run the init hook of the tracked instance again and leaves the map      *)
(* entry as it is.                                                         *)
C10_InitIdempotent ==
    [][last'.op = "init" =>
        \A x \in Tracked(map) :
            InScope(last'.ctx, x[1]) =>
                Hook("init", x[3]) \notin Hooks(log') /\ x \in Tracked(map')]_vars

C12_SkipMarkerSkips ==
    last.op = "init" =>
        \A e \in Elems : hasAttribute(e, SkipAttribute) =>
            /\ \A h \in Hooks(log) : h.inst[2] # e
            /\ \A x \in Tracked(map) : x[1] # e

(* C13.  When an element in the context carries the discovery attributes  *)
(* of two registered components, then after Registry.init its map entry    *)
(* holds an instance of each, the two are distinct objects, and each is    *)
(* the instance its own class finds bound to the element.                  *)
C13_TwoComponentsOneElement ==
    last.op = "init" =>
        \A e \in Elems, c1 \in Classes, c2 \in Classes :
            (/\ c1 # c2 /\ InScope(last.ctx, e)
             /\ hasAttribute(e, "data-module-" \o AppName(c1))
             /\ hasAttribute(e, "data-module-" \o AppName(c2)))
            => \E x1 \in Tracked(map), x2 \in Tracked(map) :
                  /\ x1[1] = e /\ x1[2] = AppName(c1) /\ insts[x1[3]].cls = c1
                  /\ x2[1] = e /\ x2[2] = AppName(c2) /\ insts[x2[3]].cls = c2
                  /\ x1[3] # x2[3]
                  /\ getInstance(Prog, c1, e) = x1[3]
                  /\ getInstance(Prog, c2, e) = x2[3]

C15_RemoveUnregisteredNoOp ==
    [][\A id \in Ids, targets \in TargetLists, type \in Types, capture \in BOOLEAN :
          (/\ RemoveEventListener(id, targets, type, capture)
           /\ \A k \in 1..Len(targets) : <<targets[k], type>> \notin DOMAIN insts[id].table)
          => (dom' = dom /\ insts' = insts /\ log' = <<>>)]_vars

\* a removal that found nothing in the table while a listener of the instance
\* is attached to the document
C15_Witness ==
    /\ last.op = "removeEventListener"
    /\ log = <<>>
    /\ insts[last.ret].table = <<>>
    /\ \E d \in dom : d.fn[1] = last.ret

\* the reading of a selector: with a marker it is literal, without one it is a
\* name in the component's namespace, written in one of the two conventions
HasMarker(selector) == \E k \in 1..Len(selector) : selector[k] \in {".", "#", "["}

Scoped(convention, token, selector) ==
    IF convention = "value"
    THEN "[data-" \o token \o "=\"" \o Join(selector) \o "\"]"
    ELSE "[data-" \o token \o "-" \o Join(selector) \o "]"

Resolved(convention, id, selector) ==
    IF HasMarker(selector) THEN Join(selector)
    ELSE Scoped(convention, getName(insts[id].cls), selector)

(* C16. Scoped selector resolution.  Whenever a component hands a selector *)
(* s to the platform through $, $all, $parent, addEventListener or the     *)
(* selector filter, the query is s unchanged if s contains '.', '#' or     *)
(* '[', and otherwise the attribute selector built from the component's    *)
(* own token and s, in one convention that every component and every call  *)
(* follows: a bare word is never passed as it is.                          *)
C16_ScopedSelector ==
    \E convention \in {"value", "suffix"} :
        /\ \A id \in DOMAIN insts, selector \in Selectors :
               getSelectorQuery(insts[id], selector) = Resolved(convention, id, selector)
        /\ \A k \in 1..Len(log) :
               log[k].op \in QueryFunctions \cup {"addEventListener"}
                   => log[k].query = Resolved(convention, log[k].inst, log[k].selector)

\* the nodes above each node, read off the document's shape
Ancestors ==
    [A |-> {"body", "html", "document"}, B |-> {"A", "body", "html", "document"},
     C |-> {"body", "html", "document"}, body |-> {"html", "document"},
     html |-> {"document"}, document |-> {}]

\* the elements of a set that are nearest to the node the set's chain starts at
Nearest(S) == {n \in S : \A o \in S \ {n} : o \in Ancestors[n]}

(* C17. findParent(start, selector, limit) returns the nearest element on  *)
(* the parent chain of start, start included, that matches selector and    *)
(* lies strictly below limit (the root element when limit is omitted), or  *)
(* none when there is no such element; it returns neither limit nor an     *)
(* element above limit, also when limit is no ancestor of start.           *)
C17_FindParentBelowLimit ==
    \A k \in 1..Len(log) :
        log[k].op = "findParent" =>
            LET limit == IF log[k].limit = None THEN "html" ELSE log[k].limit
                below == {n \in ({log[k].element} \cup Ancestors[log[k].element]) \ {"document"} :
                             matches(n, log[k].selector) /\ limit \in Ancestors[n]}
            IN  /\ log[k].ret # limit
                /\ log[k].ret = NoNode \/ log[k].ret \notin Ancestors[limit]
                /\ IF below = {} THEN log[k].ret = NoNode ELSE log[k].ret \in Nearest(below)

(* C18. The listener made by getEventFilteredEventListener(root, listener) *)
(* calls listener exactly when the event's target is root or a descendant  *)
(* of root, and then with root as the current target; an event whose       *)
(* target is outside root, such as a proper ancestor of root, never calls  *)
(* listener.                                                               *)
C18_EventFilterWithinRoot ==
    (Len(log) > 0 /\ log[1].op = "eventFiltered") =>
        LET inside == log[1].target = log[1].element
                          \/ log[1].element \in Ancestors[log[1].target]
        IN  /\ inside <=> Len(log) = 2
            /\ Len(log) = 2 => log[2] = Listened(log[1].element)

(* C19. The listener made by getSelectorFilteredEventListener(selector,    *)
(* listener) calls listener exactly when findParent(event.target,          *)
(* selector) finds an element, and the event listener receives has that    *)
(* matched ancestor as its current target, not the raw target.             *)
C19_SelectorFilterMatched ==
    (Len(log) > 0 /\ log[1].op = "selectorFiltered") =>
        LET found == IF log[1].target = "document" THEN NoNode
                     ELSE findParent(log[1].target, log[1].selector, None)
        IN  /\ found # NoNode <=> Len(log) = 2
            /\ Len(log) = 2 => log[2] = Listened(found)

\* the callbacks subscribed to an event of an instance, and the calls of a
\* callback in a log
Subscribers(i, eventName) ==
    IF eventName \in DOMAIN i.events
    THEN {i.events[eventName][k] : k \in 1..Len(i.events[eventName])}
    ELSE {}

Calls(l, callback) ==
    Cardinality({k \in 1..Len(l) : l[k].op = "call" /\ l[k].callback = callback})

(* C20. Event Channel.  For every event name n and callback cb: on(n, cb)  *)
(* subscribes cb, however often it is called; off(n, cb) and the handle    *)
(* returned by on unsubscribe cb and no other callback; emit(n) calls each *)
(* subscribed callback exactly once and no other; none of them raises an   *)
(* error, also when n has no subscribers.                                  *)
C20_EventChannel ==
    [][\A id \in Ids, n \in EventNames, cb \in Callbacks :
          /\ On(id, n, cb) =>
                /\ last'.ret # Thrown
                /\ Subscribers(insts'[id], n) = Subscribers(insts[id], n) \cup {cb}
          /\ (Off(id, n, cb) \/ Unsubscribe(id, n, cb)) =>
                /\ last'.ret # Thrown
                /\ Subscribers(insts'[id], n) = Subscribers(insts[id], n) \ {cb}
          /\ Emit(id, n) =>
                /\ last'.ret # Thrown
                /\ insts' = insts
                /\ \A c \in Callbacks :
                      Calls(log', c) = IF c \in Subscribers(insts[id], n) THEN 1 ELSE 0]_vars

(* C21. instance.destroy() also tears down the instance's Event Channel:   *)
(* right after it, emit(n) on the instance calls no callback, for every    *)
(* event name n; destroy raises no error and changes no other instance,    *)
(* also when the instance has no listener and no subscriber.               *)
C21_DestroyClearsEvents ==
    [][\A id \in Ids :
          Destroy(id) =>
              /\ last'.ret # Thrown
              /\ \A j \in DOMAIN insts \ {id} : insts'[j] = insts[j]
              /\ \A n \in EventNames, cb \in Callbacks :
                    Calls(emit([Prog EXCEPT !.insts = insts'], id, n).log, cb) = 0]_vars

(* C22. dispatchDomEvent(type, detail) dispatches exactly one event, from  *)
(* the owning element, of the given type, bubbling and not cancelable; its *)
(* payload has every field the caller supplied, with the caller's value    *)
(* for every field but `module`, and its `module` field is the dispatching *)
(* instance, also when the caller's detail has a `module` field.           *)
C22_DispatchCarriesModule ==
    last.op = "dispatchDomEvent" =>
        /\ Len(log) = 2
        /\ log[2].op = "dispatchEvent"
        /\ log[2].target = insts[log[1].inst].el
        /\ log[2].type = log[1].type
        /\ log[2].bubbles /\ ~log[2].cancelable
        /\ DOMAIN log[1].detail \subseteq DOMAIN log[2].detail
        /\ \A f \in DOMAIN log[1].detail \ {"module"} : log[2].detail[f] = log[1].detail[f]
        /\ "module" \in DOMAIN log[2].detail
        /\ log[2].detail["module"] = log[1].inst

\* an event dispatched for a caller whose detail has a value and a module field
C22_Witness ==
    /\ last.op = "dispatchDomEvent"
    /\ DOMAIN log[1].detail = {"value", "module"}
    /\ log[2].detail["value"] = <<"3">>
    /\ log[2].detail["module"] = last.ret

(* C23. Scoped data attributes round-trip.  After setData(name, v) with a  *)
(* value v that is not null, getData(name) answers v; after setData(name,  *)
(* null) it answers null; setData acts on the attribute                    *)
(* data-<token>-<name> of the owning element, or of the context element    *)
(* when one is given, and leaves every other attribute as it was.          *)
C23_DataRoundTrip ==
    [][\A id \in Ids, name \in DataNames, value \in DataValues, ctx \in {None, "B"} :
          SetData(id, name, value, ctx) =>
              LET target == IF ctx = None THEN insts[id].el ELSE ctx
                  scoped == "data-" \o Kebab[insts[id].cls] \o "-" \o name
              IN  /\ (getData(insts[id], name, ctx))' = value
                  /\ \A e \in Elems :
                        \A n \in (DOMAIN attrs[e] \cup DOMAIN attrs'[e]) \ {scoped} :
                            /\ n \in DOMAIN attrs[e] /\ n \in DOMAIN attrs'[e]
                            /\ attrs'[e][n] = attrs[e][n]
                  /\ \A e \in Elems \ {target} : attrs'[e] = attrs[e]]_vars

\* the lowercase forms of the uppercase letters, and the token the rule gives
\* for a type name when the letters of U count as uppercase
LowerForm == ("T" :> "t") @@ ("B" :> "b") @@ ("É" :> "é")

Segmented(s, U) ==
    Join([i \in 1..Len(s) |->
            IF s[i] \in U THEN (IF i > 1 THEN "-" ELSE "") \o LowerForm[s[i]] ELSE s[i]])

(* C24, as stated.  For every non-empty type name pascalToKebab yields a   *)
(* non-empty token in which every uppercase letter is replaced by its      *)
(* lowercase form, preceded by '-' exactly when it is not the first        *)
(* character, and every other character is kept in place.                  *)
C24_EveryUppercase ==
    last.op = "pascalToKebab" =>
        /\ log[1].ret # ""
        /\ log[1].ret = Segmented(log[1].input, {"T", "B", "É"})

(* C24, amended.  The same with the uppercase letters A to Z only: an      *)
(* uppercase letter outside A-Z is kept as it is and starts no segment.    *)
(* The token is a function of the input alone.                             *)
C24_AsciiUppercase ==
    last.op = "pascalToKebab" =>
        /\ log[1].ret # ""
        /\ log[1].ret = Segmented(log[1].input, {"T", "B"})

\* a name with an uppercase letter first, one later and a letter outside A-Z
C24_Witness ==
    /\ last.op = "pascalToKebab"
    /\ log[1].input = <<"T", "B", "É">>
    /\ log[1].ret = "t-bÉ"

\* the token the README gives for each `static name`
NameToken == (Tab :> "tab") @@ (MyTab :> "my-tab") @@ (tab :> "tab") @@ (my_tab :> "my-tab")

(* C25. A `static name` already in kebab-case is the component's token     *)
(* verbatim, converting a token again changes nothing, and a PascalCase    *)
(* name and its kebab-case form select the same discovery attribute        *)
(* data-module-<token>: the selector of the class names it, and the        *)
(* registry binds the elements that carry it.                              *)
C25_NameFormsAgree ==
    /\ \A c \in Classes :
          /\ Kebab[c] = NameToken[c]
          /\ getModuleSelector(c) = "data-module-" \o NameToken[c]
    /\ (last.op = "init" /\ last.ctx = None) =>
          \A c \in Classes, e \in Elems :
              (hasAttribute(e, "data-module-" \o NameToken[c])
                  /\ ~hasAttribute(e, SkipAttribute))
              => \E x \in Tracked(map) : x[1] = e /\ insts[x[3]].cls = c

(* C26. The first use of a subclass that supplies no naming token, its     *)
(* construction through create, fails with an error; no instance of it is  *)
(* bound to an element, and none exists whose attribute names would carry  *)
(* an empty or undefined token.                                            *)
C26_UnnamedFails ==
    /\ (last.op = "create" /\ last.cls \in Unnamed) => last.ret = Thrown
    /\ \A e \in Elems : \A k \in DOMAIN prop[e] : prop[e][k][1] \notin Unnamed
    /\ \A id \in DOMAIN insts :
          insts[id].cls \in Unnamed => insts[id].name \notin {"", BaseName}

\* the elements on the parent chain of x, x included, below the root element,
\* that carry the discovery attribute of c
MarkedAbove(c, x) ==
    {n \in ({x} \cup Ancestors[x]) \cap Elems :
        hasAttribute(n, "data-module-" \o NameToken[c])}

\* the instance of c bound to element e
BoundTo(c, e) ==
    IF NameToken[c] \in DOMAIN prop[e] THEN prop[e][NameToken[c]] ELSE Null

(* C27. C.findModuleInTree(x) returns the instance of C bound to the        *)
(* nearest element on the parent chain of x, x included and the root       *)
(* element excluded, that carries C's discovery attribute; it returns none *)
(* and raises nothing when there is no such element or when that element   *)
(* has no bound instance; it creates no instance and binds none.           *)
C27_FindModuleInTree ==
    [][last'.op = "findModuleInTree" =>
          LET marked == MarkedAbove(last'.cls, last'.el)
          IN  /\ last'.ret # Thrown
              /\ marked = {} => last'.ret = Null
              /\ \A n \in Nearest(marked) : last'.ret = BoundTo(last'.cls, n)
              /\ insts' = insts /\ prop' = prop /\ map' = map /\ dom' = dom]_vars

\* the lookup from the link B has passed B, marked for another component, and
\* returned the instance bound to A, while B carries an instance of its own
C27_Witness ==
    /\ last.op = "findModuleInTree" /\ last.el = "B"
    /\ last.ret # Null /\ last.ret # Thrown /\ last.ret[2] = "A"
    /\ prop["B"] # <<>>

\* the elements of the subtree of n, as the document is
Subtree(n) == {e \in Elems : contains(n, e)}

(* C28. Mutation reactor, removal.  When the callback has processed a      *)
(* batch that holds the removal of an element which is detached at that    *)
(* time, no element of its subtree is tracked in the map and every         *)
(* instance that was tracked in the subtree has had its destroy hook run,  *)
(* whatever the order of the records.                                      *)
C28_RemovalUntracks ==
    [][Deliver =>
          \A n \in {r \in Elems : \E k \in 1..Len(observer.records) :
                          observer.records[k].removedNodes = <<r>>} :
              n \in detached =>
                  /\ \A x \in Tracked(map') : x[1] \notin Subtree(n)
                  /\ \A x \in Tracked(map) :
                        x[1] \in Subtree(n) => Hook("destroy", x[3]) \in Hooks(log')]_vars

RecordsOf(l) ==
    LET marks == SelectSeq(l, LAMBDA h : h.op = "record")
    IN  [k \in 1..Len(marks) |-> marks[k].mutation]

\* a record that calls for no hook: its target is no HTML element, or it
\* adds nothing and removes only nodes that are no elements
Quiet(mutation) ==
    \/ mutation.target \notin Elems \cup {"body", "html"}
    \/ /\ mutation.addedNodes = <<>>
       /\ mutation.removedNodes # <<>>
       /\ \A k \in 1..Len(mutation.removedNodes) :
             mutation.removedNodes[k] \notin Elems \cup {"body", "html", "svg", "g"}

(* C30. The callback processes every record of a batch, in the order       *)
(* delivered: each record is noted once, in that order, whatever the       *)
(* records before it were; and no hook runs while it processes a record    *)
(* whose target is no HTML element or that only removes nodes that are no  *)
(* elements.                                                               *)
C30_EveryRecordInOrder ==
    [][Deliver =>
          /\ RecordsOf(log') = observer.records
          /\ \A j \in 1..Len(log') :
                (log'[j].op = "record" /\ Quiet(log'[j].mutation))
                    => (j = Len(log') \/ log'[j + 1].op = "record")]_vars

\* inner is nested in outer, read off the document's shape
NestedIn(outer, inner) == outer = None \/ outer = inner \/ (outer = "A" /\ inner = "B")

(* C31. Re-entrant init.  When the init hook of a component, running       *)
(* inside Registry.init(outer), calls Registry.init(inner) on a context    *)
(* nested in outer that does not hold the component's own element, then    *)
(* after the outer call has returned every marked element of outer has,    *)
(* for each identifier, exactly one instance that is alive, that instance  *)
(* is the tracked one, and its init hook has run once in this call.        *)
C31_ReentrantInit ==
    [][(/\ last'.op = "init.reentrant"
        /\ NestedIn(last'.ctx, last'.cls[1])
        /\ ~InScope(last'.cls[1], last'.el)
        /\ map = <<>>) =>
          /\ last'.ret = Null
          /\ \A c \in Classes, e \in Elems :
                (/\ InScope(last'.ctx, e)
                 /\ hasAttribute(e, "data-module-" \o AppName(c))
                 /\ ~hasAttribute(e, SkipAttribute))
                => \E id \in DOMAIN insts' :
                      /\ {i \in DOMAIN insts' : insts'[i].cls = c /\ insts'[i].el = e
                              /\ insts'[i].status = "initialized"} = {id}
                      /\ <<e, AppName(c), id>> \in Tracked(map')
                      /\ Count(log', Hook("init", id)) = 1]_vars

(* C32. Registry.init(context) and Registry.destroy(context) run to        *)
(* completion: no call ends because the call stack is exhausted, also when *)
(* the init hook of a component calls Registry.init on a context that      *)
(* holds the component's own element.                                      *)
C32_RunsToCompletion ==
    last.op \in {"init", "destroy", "init.reentrant"} => last.ret # RangeError

\* the children of e that carry attribute a with a value, by value, in
\* document order
Snapshot(e, a) ==
    LET kids == SelectIn(DocOrder, {k \in Elems \ {e} :
                    e \in Ancestors[k] /\ hasAttribute(k, a) /\ attrs[k][a] # ""})
    IN  [n \in {attrs[kids[j]][a] : j \in 1..Len(kids)} |->
            SelectSeq(kids, LAMBDA k : attrs[k][a] = n)]

(* C33. Re-activation starts fresh: after instance.destroy() the listener  *)
(* table of the instance is empty; after a following init() the table      *)
(* holds no entry of the earlier activation, and the snapshot $elements is *)
(* the one of the document as it is then, null when the component did not  *)
(* opt in.                                                                 *)
C33_ReactivationFresh ==
    [][\A id \in Ids :
          /\ Destroy(id) => insts'[id].table = <<>>
          /\ InstanceInit(id) =>
                /\ insts[id].status = "destroyed" => insts'[id].table = <<>>
                /\ insts'[id].elements =
                      IF insts[id].cls \in AutoQuery
                      THEN Snapshot(insts[id].el, "data-" \o NameToken[insts[id].cls])
                      ELSE Null]_vars

(* C34. The token the registry forms for a component, in the discovery     *)
(* attribute it scans for and in the key it records an instance under, is  *)
(* the token the component itself uses: the attribute of getModuleSelector *)
(* and the name of the instance, by which it is unregistered.  This holds  *)
(* for names of several words in PascalCase too.                           *)
C34_TokensAgree ==
    last.op = "init" =>
        /\ \A c \in Classes : "data-module-" \o AppName(c) = getModuleSelector(c)
        /\ \A x \in Tracked(map) : x[2] = insts[x[3]].name

(* C35. Destroy never clears the identity binding: after instance.destroy() *)
(* or Registry.destroy(context) every element's own property refers to the  *)
(* instance it referred to before, so C.create(e) without recreate returns  *)
(* the bound instance, destroyed or not, without constructing and without   *)
(* calling a hook, and findModuleInTree resolves it.                        *)
C35_DestroyKeepsBinding ==
    [][/\ last'.op \in {"instance.destroy", "destroy"} => prop' = prop
       /\ (last'.op = "create" /\ ~last'.recreate
             /\ BoundTo(last'.cls, last'.el) # Null) =>
              /\ last'.ret = BoundTo(last'.cls, last'.el)
              /\ insts' = insts /\ log' = <<>>
       /\ last'.op = "findModuleInTree" =>
              \A n \in Nearest(MarkedAbove(last'.cls, last'.el)) :
                  last'.ret = BoundTo(last'.cls, n)]_vars

\* create without recreate has returned an instance that is destroyed, and
\* nothing was constructed or initialised
C35_Witness ==
    /\ last.op = "create" /\ ~last.recreate
    /\ last.ret # Null /\ last.ret # Thrown
    /\ insts[last.ret].status = "destroyed"
    /\ map = <<>>
    /\ log = <<>>

(* C36. App.destroy(context) disconnects the observer for the whole        *)
(* document, also when context is a strict subtree; until App.init is      *)
(* called again, additions and removals queue no record, cause no hook and *)
(* no change of the map, and nothing is delivered.  App.update(context)    *)
(* leaves the observer as it was.                                          *)
C36_DestroyDisconnects ==
    [][/\ last'.op = "destroy" => ~observer'.on /\ observer'.records = <<>>
       /\ (~observer.on /\ last'.op \in {"removeChild", "appendChild"}) =>
              /\ observer' = observer
              /\ map' = map /\ insts' = insts /\ log' = <<>>
       /\ ~observer.on => last'.op # "mutationCallback"
       /\ ~observer.on /\ last'.op # "init" => ~observer'.on
       /\ last'.op = "update" => observer' = observer]_vars

\* destroy on the link B alone has stopped the observer while components
\* outside B are still tracked
C36_Witness ==
    /\ last.op = "destroy" /\ last.ctx = "B"
    /\ ~observer.on
    /\ \E x \in Tracked(map) : x[1] # "B"

(* C37. With addFilteredEventListener(target, type, listener, selector),   *)
(* whenever the listener is called the element it receives as current      *)
(* target is target itself or a descendant of target, never an element     *)
(* above the element the listener is attached to.                          *)
C37_CurrentTargetWithinTarget ==
    (Len(log) = 2 /\ log[1].op = "filteredEvent") =>
        contains(log[1].at, log[2].currentTarget)

\* node n is an element that carries no discovery attribute, and neither
\* does an element below it
Unmarked(n) ==
    /\ n \in Elems
    /\ \A e \in Elems : (e = n \/ n \in Ancestors[e]) =>
          \A a \in DOMAIN attrs[e] : SubSeq(a, 1, 12) # "data-module-"

\* every node the record adds or removes is unmarked
UnmarkedRecord(mutation) ==
    /\ \A k \in 1..Len(mutation.addedNodes) : Unmarked(mutation.addedNodes[k])
    /\ \A k \in 1..Len(mutation.removedNodes) : Unmarked(mutation.removedNodes[k])

(* C38. When the callback processes a batch whose records only add or      *)
(* remove elements without a discovery attribute, under a target that      *)
(* holds tracked components, no init hook and no destroy hook runs and the *)
(* map is as it was.                                                       *)
C38_UnmarkedChangeIsQuiet ==
    [][(Deliver /\ \A k \in 1..Len(observer.records) : UnmarkedRecord(observer.records[k]))
          => /\ map' = map
             /\ insts' = insts
             /\ \A j \in 1..Len(log') : log'[j].op = "record"]_vars

\* the instances the map tracks
TrackedIds(m) == {x[3] : x \in Tracked(m)}

====
